---- MODULE Spec2Model ----
(***************************************************************************)
(* A model of the SvgPathTurtle front end and execution engine:            *)
(*   - FrameStack / EngineStack          (FrameStack.h, EngineStack.h)     *)
(*   - FunctionSignature::TypeChecker     (Signature.h)                     *)
(*   - the import machinery of the parser (Parser.cpp, LexicalContext.h)    *)
(*   - the program builder and the executor of ExecutionEngine              *)
(*     (Engine.h, Engine.cpp), driven by the parser's compile calls         *)
(*     (Parser.cpp)                                                         *)
(* A double is modelled by an integer number of 1 / Unit.                    *)
(***************************************************************************)
EXTENDS Integers, Sequences, FiniteSets, TLC

VARIABLES
    fs,         \* FrameStack<double> under test: [stack, frame_start, frames]
    fsLast,     \* the last FrameStack operation applied: [op, a, p, pre]
    sig,        \* signature string of the function being called
    chk,        \* its TypeChecker: [p, m_paren_depth]
    sigLast,    \* the last argument checked: [op, arg, declared, error, assert_ok]
    disk,       \* the files on disk: file name -> its top-level statements
    m_files,    \* Parser::FileMap shared by the parsers of one top-level parse
    parsers,    \* the active parsers, the top-level parser first
    impStatus,  \* "parsing", "execute" (parse() returned) or "exit1"
    impLast,    \* the last statement processed by a parser
    diag,       \* the diagnostics reported so far, by any parser
    started,    \* the files a parser was constructed for, in order
    prog,       \* the program being compiled and run: [id, a, s, b]
    par,        \* the Parser compiling it
    eng,        \* the ExecutionEngine
    cstack,     \* the executor's chain of activations
    status,     \* "parsing", "parsed", "executing", "done", or how execution stopped
    lastCall,   \* the last call that returned
    entered,    \* the user functions entered so far: [fn, args]
    lastLoop,   \* the last step of a for statement
    lastCheck,  \* the last infinite-recursion check
    tokens,     \* the tokens of the expression handed to the parser
    parsedExpr, \* what the parser made of it: [op, e, st]
    lexical,    \* a parser's names: [m_stack, m_context_depth, m_has_error]
    lexLast,    \* the last operation on them: [op, name, pre, result]
    input,      \* the tokens of a source file with errors
    rp          \* the parser recovering over them: [pos, stack, m_context_depth, ...]

fsVars == <<fs, fsLast>>
sigVars == <<sig, chk, sigLast>>
impVars == <<disk, m_files, parsers, impStatus, impLast, diag, started>>

engVars == <<prog, par, eng, cstack, status, lastCall, entered, lastLoop, lastCheck>>
exprVars == <<tokens, parsedExpr>>
lexVars == <<lexical, lexLast>>
recVars == <<input, rp>>

vars == <<fs, fsLast, sig, chk, sigLast, disk, m_files, parsers, impStatus, impLast,
          diag, started,
          prog, par, eng, cstack, status, lastCall, entered, lastLoop, lastCheck,
          tokens, parsedExpr, lexical, lexLast, input, rp>>

\* what each part of the model leaves alone
notFS == <<sigVars, impVars, engVars, exprVars, lexVars, recVars>>
notSig == <<fsVars, impVars, engVars, exprVars, lexVars, recVars>>
notImp == <<fsVars, sigVars, engVars, exprVars, lexVars, recVars>>
notEng == <<fsVars, sigVars, impVars, exprVars, lexVars, recVars>>
notExpr == <<fsVars, sigVars, impVars, engVars, lexVars, recVars>>
notLex == <<fsVars, sigVars, impVars, engVars, exprVars, recVars>>
notRec == <<fsVars, sigVars, impVars, engVars, exprVars, lexVars>>

(***************************************************************************)
(* Bounds of the model                                                     *)
(***************************************************************************)
MaxStackLen == 4      \* longest FrameStack explored by SpecFS
MaxVal == 2           \* values pushed by SpecFS are 1..MaxVal
MaxSigLen == 6        \* longest signature string of a called function
MaxArgSigLen == 4     \* longest signature string of a function passed as argument

(***************************************************************************)
(* Small helpers                                                           *)
(***************************************************************************)
Last(s) == s[Len(s)]
Front(s) == SubSeq(s, 1, Len(s) - 1)
Take(s, n) == SubSeq(s, 1, n)

(***************************************************************************)
(* FrameStack<T>  (FrameStack.h).  m_frame_start and the indices are       *)
(* 0-based as in the source; m_stack is a TLA+ sequence, so slot i of the  *)
(* source is stack[i + 1].                                                 *)
(***************************************************************************)
FrameStack_reset == [stack |-> <<>>, frame_start |-> 0, frames |-> <<>>]

FrameStack_get_frame_size(f) == Len(f.stack) - f.frame_start

FrameStack_get_frame_start(f) == f.frame_start

FrameStack_get_stack_size(f) == Len(f.stack)

FrameStack_get_num_frames(f) == Len(f.frames) + 1

\* the asserts of operator[]
FrameStack_index_ok(f, stack_offset) ==
    /\ f.frame_start + stack_offset >= 0
    /\ f.frame_start + stack_offset < Len(f.stack)

FrameStack_index(f, stack_offset) == f.stack[f.frame_start + stack_offset + 1]

\* the assert of read_global
FrameStack_read_global_ok(f, stack_offset) ==
    stack_offset >= 0 /\ stack_offset < Len(f.stack)

FrameStack_read_global(f, stack_offset) == f.stack[stack_offset + 1]

FrameStack_push(f, val) == [f EXCEPT !.stack = Append(@, val)]

\* the asserts of pop
FrameStack_pop_ok(f, size) ==
    size >= 0 /\ f.frame_start + size <= Len(f.stack)

FrameStack_pop(f, size) == [f EXCEPT !.stack = Take(@, Len(@) - size)]

FrameStack_push_frame0(f) ==
    [f EXCEPT !.frames = Append(@, f.frame_start),
              !.frame_start = Len(f.stack)]

\* the asserts of push_frame(args_size, params_size)
FrameStack_push_frame_ok(f, args_size, params_size) ==
    /\ args_size >= 0
    /\ params_size >= 0
    /\ params_size <= args_size
    /\ Len(f.stack) - args_size >= f.frame_start

\* A plausible slip: the frame is opened but the excess arguments stay.
Mutant_FrameStack_push_frame(f, args_size, params_size) ==
    [f EXCEPT !.frames = Append(@, f.frame_start),
              !.frame_start = Len(f.stack) - args_size]

FrameStack_push_frame(f, args_size, params_size) ==
    LET start == Len(f.stack) - args_size IN
    [stack       |-> IF params_size < args_size
                     THEN Take(f.stack, start + params_size)
                     ELSE f.stack,
     frame_start |-> start,
     frames      |-> Append(f.frames, f.frame_start)]

FrameStack_pop_frame_ok(f) == f.frames # <<>>

\* pop_frame returns the size of the popped frame
FrameStack_pop_frame_size(f) == FrameStack_get_frame_size(f)

FrameStack_pop_frame(f) ==
    LET size == FrameStack_get_frame_size(f) IN
    [stack       |-> Take(f.stack, Len(f.stack) - size),
     frame_start |-> Last(f.frames),
     frames      |-> Front(f.frames)]

(***************************************************************************)
(* SpecFS: a FrameStack driven by every sequence of its operations whose   *)
(* asserts hold.                                                           *)
(***************************************************************************)
NoOp == [op |-> "none", a |-> 0, p |-> 0, pre |-> FrameStack_reset]

FSIdle ==
    /\ fs = FrameStack_reset
    /\ fsLast = NoOp

SigIdle ==
    /\ sig = <<>>
    /\ chk = [p |-> 0, m_paren_depth |-> 0]
    /\ sigLast = [op |-> "none"]

ImpIdle ==
    /\ disk = <<>>
    /\ m_files = <<>>
    /\ parsers = <<>>
    /\ impStatus = "idle"
    /\ impLast = [op |-> "none"]
    /\ diag = <<>>
    /\ started = <<>>

EngIdle ==
    /\ prog = <<>>
    /\ par = <<>>
    /\ eng = <<>>
    /\ cstack = <<>>
    /\ status = "idle"
    /\ lastCall = [op |-> "none"]
    /\ entered = <<>>
    /\ lastLoop = [op |-> "none"]
    /\ lastCheck = [op |-> "none"]

ExprIdle ==
    /\ tokens = <<>>
    /\ parsedExpr = [op |-> "none"]

NamesIdle ==
    /\ lexical = [m_stack |-> <<>>, m_context_depth |-> 0, m_has_error |-> FALSE]
    /\ lexLast = [op |-> "none"]

RecIdle ==
    /\ input = <<>>
    /\ rp = [status |-> "idle"]

FSInit ==
    /\ ExprIdle
    /\ NamesIdle
    /\ RecIdle
    /\ FSIdle
    /\ SigIdle
    /\ ImpIdle
    /\ EngIdle

FS_push ==
    \E v \in 1..MaxVal :
        /\ Len(fs.stack) < MaxStackLen
        /\ fs' = FrameStack_push(fs, v)
        /\ fsLast' = [op |-> "push", a |-> v, p |-> 0, pre |-> fs]
        /\ UNCHANGED notFS

FS_pop ==
    \E n \in 0..MaxStackLen :
        /\ FrameStack_pop_ok(fs, n)
        /\ fs' = FrameStack_pop(fs, n)
        /\ fsLast' = [op |-> "pop", a |-> n, p |-> 0, pre |-> fs]
        /\ UNCHANGED notFS

FS_push_frame0 ==
    /\ Len(fs.frames) < MaxStackLen
    /\ fs' = FrameStack_push_frame0(fs)
    /\ fsLast' = [op |-> "push_frame0", a |-> 0, p |-> 0, pre |-> fs]
    /\ UNCHANGED notFS

FS_push_frame ==
    \E a \in 0..MaxStackLen, p \in 0..MaxStackLen :
        /\ Len(fs.frames) < MaxStackLen
        /\ FrameStack_push_frame_ok(fs, a, p)
        /\ fs' = FrameStack_push_frame(fs, a, p)
        /\ fsLast' = [op |-> "push_frame", a |-> a, p |-> p, pre |-> fs]
        /\ UNCHANGED notFS

FS_pop_frame ==
    /\ FrameStack_pop_frame_ok(fs)
    /\ fs' = FrameStack_pop_frame(fs)
    /\ fsLast' = [op |-> "pop_frame", a |-> FrameStack_pop_frame_size(fs),
                  p |-> 0, pre |-> fs]
    /\ UNCHANGED notFS

FSNext ==
    \/ FS_push
    \/ FS_pop
    \/ FS_push_frame0
    \/ FS_push_frame
    \/ FS_pop_frame

SpecFS == FSInit /\ [][FSNext]_vars

(***************************************************************************)
(* C6: push_frame(args_size, params_size) with                             *)
(* 0 <= params_size <= args_size <= current frame size saves the previous  *)
(* frame start, makes the new frame start args_size slots below the old    *)
(* top, keeps exactly the first params_size argument slots in their order, *)
(* discards the rest, and leaves every slot below the new frame start      *)
(* unchanged.                                                              *)
(***************************************************************************)
C6_PushFrameTruncates ==
    fsLast.op = "push_frame" =>
        LET pre == fsLast.pre
            a   == fsLast.a
            p   == fsLast.p
        IN  /\ fs.frames = Append(pre.frames, pre.frame_start)
            /\ fs.frame_start = Len(pre.stack) - a
            /\ Len(fs.stack) = fs.frame_start + p
            /\ \A i \in 1..Len(fs.stack) : fs.stack[i] = pre.stack[i]

\* a truncating call on a frame that is not the outermost one
C6_Witness ==
    /\ fsLast.op = "push_frame"
    /\ 0 < fsLast.p
    /\ fsLast.p < fsLast.a
    /\ fsLast.pre.frame_start > 0
    /\ fsLast.a < FrameStack_get_frame_size(fsLast.pre)

(***************************************************************************)
(* FunctionSignature and its TypeChecker  (Signature.h).  A signature is   *)
(* a string over 'v', '(' and ')'; the checker's pointer p is the 0-based  *)
(* index of the next character and "NUL" is the terminating zero.          *)
(***************************************************************************)
SigChar == {"v", "(", ")"}

CharAt(s, i) == IF i < Len(s) THEN s[i + 1] ELSE "NUL"

get_type_checker == [p |-> 0, m_paren_depth |-> 0]

TypeChecker_next(s, c) ==
    [p |-> c.p + 1,
     m_paren_depth |-> IF CharAt(s, c.p) = "(" THEN c.m_paren_depth + 1
                       ELSE IF CharAt(s, c.p) = ")" THEN c.m_paren_depth - 1
                       ELSE c.m_paren_depth]

TypeChecker_more(s, c) == CharAt(s, c.p) # "NUL"

\* consume(ch): the guard; the effect is TypeChecker_next
TypeChecker_consume(s, c, ch) == CharAt(s, c.p) = ch

TypeChecker_consume_value(s, c) == TypeChecker_consume(s, c, "v")

TypeChecker_consume_lambda_start(s, c) == TypeChecker_consume(s, c, "(")

\* consume_same(other): the guard; the effect is next() on both checkers
TypeChecker_consume_same(s, c, other, oc) ==
    ~ ( \/ CharAt(s, c.p) = "NUL"
        \/ CharAt(other, oc.p) = "NUL"
        \/ CharAt(s, c.p) # CharAt(other, oc.p) )

\* while(consume_same(other_checker)) ; -- the two checkers after the loop
RECURSIVE consume_same_loop(_, _, _, _)
consume_same_loop(s, c, other, oc) ==
    IF TypeChecker_consume_same(s, c, other, oc)
    THEN consume_same_loop(s, TypeChecker_next(s, c),
                           other, TypeChecker_next(other, oc))
    ELSE [c |-> c, oc |-> oc]

\* A plausible slip: the argument must use up the whole lambda signature.
Mutant_consume_lambda_sig(s, c, other) ==
    LET r == consume_same_loop(s, c, other, get_type_checker) IN
    [c         |-> r.c,
     assert_ok |-> CharAt(s, r.c.p) # "NUL",
     ok        |-> ~TypeChecker_more(other, r.oc) /\ CharAt(s, r.c.p) = ")"]

\* consume_lambda_sig(sig): the checker afterwards, assert(*p), the result
TypeChecker_consume_lambda_sig(s, c, other) ==
    LET r == consume_same_loop(s, c, other, get_type_checker) IN
    [c         |-> r.c,
     assert_ok |-> CharAt(s, r.c.p) # "NUL",
     ok        |-> ~TypeChecker_more(other, r.oc)]

\* consume_lambda_end(): the checker after the loop (assert: depth > 0 before)
RECURSIVE TypeChecker_consume_lambda_end(_, _)
TypeChecker_consume_lambda_end(s, c) ==
    IF TypeChecker_more(s, c) /\ c.m_paren_depth > 0
    THEN TypeChecker_consume_lambda_end(s, TypeChecker_next(s, c))
    ELSE c

(***************************************************************************)
(* The signatures the parser can build (parse_param_def,                   *)
(* parse_lambda_param_signature): every '(' is closed by a later ')'.      *)
(***************************************************************************)
RECURSIVE DepthAfter(_, _)
DepthAfter(s, n) ==
    IF n = 0 THEN 0
    ELSE DepthAfter(s, n - 1)
         + (IF s[n] = "(" THEN 1 ELSE IF s[n] = ")" THEN -1 ELSE 0)

WellFormed(s) ==
    /\ \A n \in 1..Len(s) : DepthAfter(s, n) >= 0
    /\ DepthAfter(s, Len(s)) = 0

SeqsUpTo(S, n) == UNION { [1..k -> S] : k \in 0..n }

Signatures(n) == { s \in SeqsUpTo(SigChar, n) : WellFormed(s) }

\* a called function takes a lambda parameter somewhere
CalleeSignatures == { s \in Signatures(MaxSigLen) : \E i \in 1..Len(s) : s[i] = "(" }

\* the signature declared for the lambda parameter whose '(' is at index
\* open (0-based): the characters up to the matching ')'
MatchingParen(s, open) ==
    CHOOSE j \in (open + 1)..(Len(s) - 1) :
        /\ DepthAfter(s, j + 1) = DepthAfter(s, open)
        /\ \A k \in (open + 1)..(j - 1) : DepthAfter(s, k + 1) > DepthAfter(s, open)

DeclaredLambdaSig(s, open) == SubSeq(s, open + 2, MatchingParen(s, open))

IsPrefix(a, b) == Len(a) <= Len(b) /\ SubSeq(b, 1, Len(a)) = a

(***************************************************************************)
(* SpecSig: parse_fn_call_arguments walking the signature of the called    *)
(* function, one parse_argument per step (Parser.cpp).                     *)
(***************************************************************************)
SigInit ==
    /\ ExprIdle
    /\ NamesIdle
    /\ RecIdle
    /\ FSIdle
    /\ ImpIdle
    /\ EngIdle
    /\ sig \in CalleeSignatures
    /\ chk = get_type_checker
    /\ sigLast = [op |-> "none"]

\* parse_argument, value parameter
Sig_parse_argument_value ==
    /\ TypeChecker_more(sig, chk)
    /\ TypeChecker_consume_value(sig, chk)
    /\ chk' = TypeChecker_next(sig, chk)
    /\ sigLast' = [op |-> "value"]
    /\ UNCHANGED sig
    /\ UNCHANGED notSig

\* parse_argument, lambda parameter: the argument is a function (a name or
\* an anonymous function) whose signature is arg
Sig_parse_argument_lambda ==
    \E arg \in Signatures(MaxArgSigLen) :
        /\ TypeChecker_more(sig, chk)
        /\ ~TypeChecker_consume_value(sig, chk)
        /\ TypeChecker_consume_lambda_start(sig, chk)
        /\ LET c1 == TypeChecker_next(sig, chk)
               r  == TypeChecker_consume_lambda_sig(sig, c1, arg)
           IN  /\ chk' = TypeChecker_consume_lambda_end(sig, r.c)
               /\ sigLast' = [op        |-> "lambda",
                              arg       |-> arg,
                              declared  |-> DeclaredLambdaSig(sig, chk.p),
                              error     |-> ~r.ok,
                              assert_ok |-> r.assert_ok /\ c1.m_paren_depth > 0]
        /\ UNCHANGED sig
        /\ UNCHANGED notSig

SigNext ==
    \/ Sig_parse_argument_value
    \/ Sig_parse_argument_lambda

SpecSig == SigInit /\ [][SigNext]_vars

(***************************************************************************)
(* C5: a function passed for a lambda parameter is accepted without error  *)
(* if and only if its signature string is a prefix of the signature        *)
(* declared for that lambda parameter (fewer parameters are accepted, more *)
(* parameters or another kind of parameter report the mismatch error).     *)
(***************************************************************************)
C5_AcceptedIffPrefix ==
    sigLast.op = "lambda" =>
        /\ sigLast.assert_ok
        /\ (~sigLast.error) <=> IsPrefix(sigLast.arg, sigLast.declared)

\* a function with fewer parameters than the lambda parameter supplies is
\* accepted, and the lambda parameter is not the last parameter
C5_Witness ==
    /\ sigLast.op = "lambda"
    /\ ~sigLast.error
    /\ 0 < Len(sigLast.arg)
    /\ Len(sigLast.arg) < Len(sigLast.declared)
    /\ TypeChecker_more(sig, chk)

\* a function that asks for too many parameters is rejected
C5_WitnessReject ==
    /\ sigLast.op = "lambda"
    /\ sigLast.error
    /\ IsPrefix(sigLast.declared, sigLast.arg)

(***************************************************************************)
(* Imports  (Parser.cpp: parse_import_statement, import_module,            *)
(* import_names, store_global_context, parse, FileMap::add_file;           *)
(* LexicalContext.h: define_name, lookup_name, import_names,               *)
(* extract_innermost_context).                                             *)
(*                                                                         *)
(* A file is a sequence of top-level statements:                           *)
(*   [k |-> "import", f |-> file]   import 'file'                          *)
(*   [k |-> "def", n |-> name, uses |-> names]                             *)
(*                                  def name() { the commands in uses }    *)
(*   [k |-> "use", n |-> name]      the command `name` as a statement      *)
(* A context maps names to definitions; a definition is identified by the  *)
(* file that declared it, so a context is a set of [name, def] records.    *)
(***************************************************************************)
Import(f) == [k |-> "import", f |-> f]
DefBody(n, uses, body) == [k |-> "def", n |-> n, uses |-> uses, body |-> body]
Def(n, uses) == DefBody(n, uses, {})
Use(n) == [k |-> "use", n |-> n]
\* name = expr; is_constexpr says whether expr folds to a constant
Let(n, is_constexpr) == [k |-> "let", n |-> n, is_constexpr |-> is_constexpr]
\* if 1 { }  and  for 1 { }
IfStmt == [k |-> "if"]
ForStmt == [k |-> "for"]
\* x = ((( ... ))) with more nested parentheses than s_max_expr_depth
Deep == [k |-> "deep"]

\* a diagnostic written by report_error
Diag(file, type, msg, names) ==
    [file |-> file, type |-> type, msg |-> msg, names |-> names]

RECURSIVE SetToSeq(_)
SetToSeq(S) ==
    IF S = {} THEN <<>>
    ELSE LET x == CHOOSE y \in S : TRUE IN <<x>> \o SetToSeq(S \ {x})

ContextNames(ctx) == { e.name : e \in ctx }

\* LexicalContextStack::define_name on the innermost context: try_emplace
define_name_ok(ctx, name) == name \notin ContextNames(ctx)

define_name(ctx, name, file) ==
    IF define_name_ok(ctx, name) THEN ctx \cup {[name |-> name, def |-> file]}
    ELSE ctx

\* Parser::error_name: "!error@<line>:<col>"; the statement index stands
\* for the location
error_name(pc) == "!error@" \o ToString(pc)

\* Parser::declare_name at the top level of a file
declare_name(ctx, name, file, pc) ==
    IF define_name_ok(ctx, name) THEN define_name(ctx, name, file)
    ELSE define_name(ctx, error_name(pc), file)

\* Parser::lookup_name for a user name: the module's own contexts only (the
\* names of the model are no builtins)
lookup_name_ok(ctx, name) == name \in ContextNames(ctx)

\* A plausible slip: the imported definition replaces the importer's.
Mutant_import_names(ctx, other) ==
    { e \in ctx : e.name \notin ContextNames(other) } \cup other

\* LexicalContextStack::import_names: the merged context
import_names(ctx, other) ==
    ctx \cup { e \in other : e.name \notin ContextNames(ctx) }

\* LexicalContextStack::import_names: the duplicates it returns
import_names_duplicates(ctx, other) ==
    { e.name : e \in { x \in other : x.name \in ContextNames(ctx) } }

\* Parser::import_names: one Error that lists the duplicates, if any
import_names_errors(file, duplicates) ==
    IF duplicates = {} THEN <<>>
    ELSE << Diag(file, "Error", "Some names were duplicates", duplicates) >>

\* A plausible slip: the importer's flag is left as it was.
Mutant_import_module_has_error(m_has_error, p_has_error) == m_has_error

\* Parser::import_module: if(p.has_error()) m_has_error = true
import_module_has_error(m_has_error, p_has_error) == m_has_error \/ p_has_error

\* A plausible slip: statements are refused in nested blocks of a module too.
Mutant_disallow_statements_in_modules(m_is_imported_module, m_context_depth) ==
    m_is_imported_module

\* Parser::disallow_statements_in_modules: whether it reports the Error
disallow_statements_in_modules(m_is_imported_module, m_context_depth) ==
    m_is_imported_module /\ m_context_depth = 1

disallow_errors(p, m_context_depth) ==
    IF disallow_statements_in_modules(p.m_is_imported_module, m_context_depth)
    THEN << Diag(p.file, "Error", "Statements are not allowed in imported modules", {}) >>
    ELSE <<>>

\* A plausible slip: a file counts as known only once it was parsed to its end.
Mutant_FileMap_known(files, name) ==
    \E i \in 1..Len(files) : files[i].filename = name /\ files[i].stored

\* FileMap::add_file: ids are 0-based positions in m_by_id
FileMap_known(files, name) == \E i \in 1..Len(files) : files[i].filename = name

FileMap_get_file_id(files, name) ==
    CHOOSE i \in 1..Len(files) : files[i].filename = name

FileMap_add_file(files, name) ==
    IF FileMap_known(files, name) THEN files
    ELSE Append(files, [filename |-> name, global_context |-> {}, stored |-> FALSE])

NewParser(file, imported) ==
    [file |-> file, pc |-> 1, ctx |-> {}, m_has_error |-> FALSE,
     m_is_imported_module |-> imported]

TopParser == parsers[Len(parsers)]

AtStatement(kind) ==
    /\ impStatus = "parsing"
    /\ parsers # <<>>
    /\ TopParser.pc <= Len(disk[TopParser.file])
    /\ disk[TopParser.file][TopParser.pc].k = kind

CurStatement == disk[TopParser.file][TopParser.pc]

SetTop(p) == [parsers EXCEPT ![Len(parsers)] = p]

\* the top parser after a statement that wrote the diagnostics errs
Reported(p, errs) == [p EXCEPT !.pc = @ + 1, !.m_has_error = @ \/ errs # <<>>]

\* the names a file's own top-level def statements define
TopLevelNames(file) ==
    { disk[file][i].n : i \in { j \in 1..Len(disk[file]) : disk[file][j].k = "def" } }

(***************************************************************************)
(* The files of the model.  "nofile" is a name that cannot be opened.      *)
(***************************************************************************)
MaxParsers == 6   \* parsers that may be active at once

MainFiles ==
    { << Import("A"), Import("B"), Use("b") >>,
      << Import("A"), Import("A"), Use("a") >>,
      << Import("C"), Import("nofile"), Def("c", {}) >>,
      << Import("B"), Def("x", {"b"}), Import("C"), Use("c") >>,
      << Import("main"), IfStmt, Let("v", FALSE), Import("C") >> }

AFiles ==
    { << Import("C"), Def("a", {"c"}) >>,
      << Def("a", {}) >>,
      << Import("B"), Def("a", {"b"}) >>,
      << Let("k", TRUE), Def("a", {}) >>,
      << Let("k", FALSE), Def("a", {}) >> }

BFiles ==
    { << Import("C"), Def("b", {"c"}) >>,
      << Import("A"), Def("b", {"a"}) >>,
      << Def("c", {}), Def("b", {"c"}), Use("b") >>,
      << IfStmt, Def("b", {}) >>,
      << ForStmt, Let("a", TRUE), Let("k", TRUE), Def("b", {}) >>,
      << DefBody("b", {"b"}, {"if", "for", "let"}) >> }

CFiles ==
    { << Def("c", {}) >>,
      << Def("c", {}), Def("c", {}) >>,
      << Import("A"), Def("c", {"a"}) >>,
      << Import("C"), Def("c", {}) >>,
      << Deep, Def("c", {}) >> }

Readable(f) == f \in {"main", "A", "B", "C"}

\* Parser::set_filename then Parser::parse() in main()
ImpInit ==
    /\ ExprIdle
    /\ NamesIdle
    /\ RecIdle
    /\ FSIdle
    /\ SigIdle
    /\ EngIdle
    /\ \E m \in MainFiles, a \in AFiles, b \in BFiles, c \in CFiles :
           disk = [f \in {"main", "A", "B", "C"} |->
                     IF f = "main" THEN m ELSE IF f = "A" THEN a
                     ELSE IF f = "B" THEN b ELSE c]
    /\ m_files = FileMap_add_file(<<>>, "main")
    /\ parsers = << NewParser("main", FALSE) >>
    /\ impStatus = "parsing"
    /\ impLast = [op |-> "none"]
    /\ diag = <<>>
    /\ started = << "main" >>

\* parse_import_statement: a new, readable file -- import_module starts a
\* parser for it
Imp_import_module ==
    /\ AtStatement("import")
    /\ ~FileMap_known(m_files, CurStatement.f)
    /\ Readable(CurStatement.f)
    /\ Len(parsers) < MaxParsers
    /\ m_files' = FileMap_add_file(m_files, CurStatement.f)
    /\ parsers' = Append(parsers, NewParser(CurStatement.f, TRUE))
    /\ started' = Append(started, CurStatement.f)
    /\ UNCHANGED <<disk, impStatus, impLast, diag>>
    /\ UNCHANGED notImp

\* parse_import_statement: a new file that cannot be opened
Imp_import_unreadable ==
    /\ AtStatement("import")
    /\ ~FileMap_known(m_files, CurStatement.f)
    /\ ~Readable(CurStatement.f)
    /\ m_files' = FileMap_add_file(m_files, CurStatement.f)
    /\ LET errs == << Diag(TopParser.file, "Error", "Importing", {CurStatement.f}) >>
       IN  /\ parsers' = SetTop(Reported(TopParser, errs))
           /\ diag' = diag \o errs
    /\ impLast' = [op |-> "unreadable"]
    /\ UNCHANGED <<disk, impStatus, started>>
    /\ UNCHANGED notImp

\* parse_import_statement: add_file says the file is not new
Imp_import_known ==
    /\ AtStatement("import")
    /\ FileMap_known(m_files, CurStatement.f)
    /\ parsers' = SetTop([TopParser EXCEPT !.pc = @ + 1])
    /\ impLast' = [op       |-> "import",
                   importer |-> TopParser.file,
                   file     |-> CurStatement.f,
                   is_new   |-> FALSE,
                   parsed   |-> m_files[FileMap_get_file_id(m_files, CurStatement.f)].stored,
                   ctx      |-> TopParser.ctx]
    /\ UNCHANGED <<disk, m_files, impStatus, diag, started>>
    /\ UNCHANGED notImp

\* the imported parser reaches the end of its file: parse() stores the
\* global context and returns to import_module, which passes the error flag
\* on; then import_names merges the stored context into the importer
Imp_module_done ==
    /\ impStatus = "parsing"
    /\ Len(parsers) > 1
    /\ TopParser.pc > Len(disk[TopParser.file])
    /\ LET child  == TopParser
           id     == FileMap_get_file_id(m_files, child.file)
           parent == parsers[Len(parsers) - 1]
           errs   == import_names_errors(parent.file,
                         import_names_duplicates(parent.ctx, child.ctx))
           after  == [parent EXCEPT
                        !.pc = @ + 1,
                        !.ctx = import_names(parent.ctx, child.ctx),
                        !.m_has_error =
                            import_module_has_error(@, child.m_has_error)
                                \/ errs # <<>>]
       IN  /\ m_files' = [m_files EXCEPT ![id].global_context = child.ctx,
                                         ![id].stored = TRUE]
           /\ parsers' = Append(SubSeq(parsers, 1, Len(parsers) - 2), after)
           /\ diag' = diag \o errs
           /\ impLast' = [op       |-> "import",
                          importer |-> parent.file,
                          file     |-> child.file,
                          is_new   |-> TRUE,
                          parsed   |-> TRUE,
                          ctx      |-> after.ctx,
                          pre      |-> parent.ctx,
                          other    |-> child.ctx,
                          reported |-> errs]
    /\ UNCHANGED <<disk, impStatus, started>>
    /\ UNCHANGED notImp

\* what a statement other than an import leaves in impLast: the statement,
\* the parser that met it and what disallow_statements_in_modules reported
StatementSeen(refused) ==
    [op       |-> "stmt",
     stmt     |-> CurStatement,
     file     |-> TopParser.file,
     imported |-> TopParser.m_is_imported_module,
     refused  |-> refused]

\* parse_statement, tk_def: parse_fn_definition declares the name; the
\* statements of the body are parsed one context deeper, and the body looks
\* up every command it calls
Imp_def ==
    /\ AtStatement("def")
    /\ LET ctx1 == declare_name(TopParser.ctx, CurStatement.n, TopParser.file,
                                TopParser.pc)
           dup  == IF define_name_ok(TopParser.ctx, CurStatement.n) THEN <<>>
                   ELSE << Diag(TopParser.file, "Error", "Name is already defined",
                                {CurStatement.n}) >>
           body == IF CurStatement.body = {} THEN <<>> ELSE disallow_errors(TopParser, 2)
           undefined == { u \in CurStatement.uses : ~lookup_name_ok(ctx1, u) }
           errs == dup \o body \o
                   [i \in 1..Cardinality(undefined) |->
                       Diag(TopParser.file, "Error", "Undefined name",
                            {SetToSeq(undefined)[i]})]
       IN  /\ parsers' = SetTop([Reported(TopParser, errs) EXCEPT !.ctx = ctx1])
           /\ diag' = diag \o errs
           /\ impLast' = StatementSeen(body)
    /\ UNCHANGED <<disk, m_files, impStatus, started>>
    /\ UNCHANGED notImp

\* parse_statement, tk_identifier: disallow_statements_in_modules, then
\* parse_command_statement looks the name up
Imp_command ==
    /\ AtStatement("use")
    /\ LET refused == disallow_errors(TopParser, 1)
           errs == refused \o
                   (IF lookup_name_ok(TopParser.ctx, CurStatement.n) THEN <<>>
                    ELSE << Diag(TopParser.file, "Error", "Undefined name",
                                 {CurStatement.n}) >>)
       IN  /\ parsers' = SetTop(Reported(TopParser, errs))
           /\ diag' = diag \o errs
           /\ impLast' = StatementSeen(refused)
    /\ UNCHANGED <<disk, m_files, impStatus, started>>
    /\ UNCHANGED notImp

\* parse_statement, tk_identifier followed by '=': parse_value_definition
\* declares the name; an expression that is no constant is compiled as a
\* statement, after disallow_statements_in_modules
Imp_value_definition ==
    /\ AtStatement("let")
    /\ LET ctx1 == declare_name(TopParser.ctx, CurStatement.n, TopParser.file,
                                TopParser.pc)
           dup  == IF define_name_ok(TopParser.ctx, CurStatement.n) THEN <<>>
                   ELSE << Diag(TopParser.file, "Error", "Name is already defined",
                                {CurStatement.n}) >>
           refused == IF CurStatement.is_constexpr THEN <<>>
                      ELSE disallow_errors(TopParser, 1)
           errs == dup \o refused
       IN  /\ parsers' = SetTop([Reported(TopParser, errs) EXCEPT !.ctx = ctx1])
           /\ diag' = diag \o errs
           /\ impLast' = StatementSeen(refused)
    /\ UNCHANGED <<disk, m_files, impStatus, started>>
    /\ UNCHANGED notImp

\* parse_statement, tk_if and tk_for: disallow_statements_in_modules, then
\* the statement (with an empty body)
Imp_if_for ==
    /\ AtStatement("if") \/ AtStatement("for")
    /\ LET refused == disallow_errors(TopParser, 1)
       IN  /\ parsers' = SetTop(Reported(TopParser, refused))
           /\ diag' = diag \o refused
           /\ impLast' = StatementSeen(refused)
    /\ UNCHANGED <<disk, m_files, impStatus, started>>
    /\ UNCHANGED notImp

\* ExprDepthRAII panics while the expression of a statement is parsed:
\* report_error(Panic) sets the flag and calls exit(1)
Imp_panic ==
    /\ AtStatement("deep")
    /\ LET errs == << Diag(TopParser.file, "Panic", "Expression too complex to parse", {}) >>
       IN  /\ parsers' = SetTop([TopParser EXCEPT !.m_has_error = TRUE])
           /\ diag' = diag \o errs
    /\ impStatus' = "exit1"
    /\ UNCHANGED <<disk, m_files, impLast, started>>
    /\ UNCHANGED notImp

\* the top-level parser reaches the end of its file: parse() exits with
\* status 1 when an error was reported, else main() goes on to execute
Imp_main_done ==
    /\ impStatus = "parsing"
    /\ Len(parsers) = 1
    /\ TopParser.pc > Len(disk[TopParser.file])
    /\ impStatus' = IF TopParser.m_has_error THEN "exit1" ELSE "execute"
    /\ m_files' = IF TopParser.m_has_error THEN m_files
                  ELSE [m_files EXCEPT ![1].global_context = TopParser.ctx,
                                       ![1].stored = TRUE]
    /\ UNCHANGED <<disk, parsers, impLast, diag, started>>
    /\ UNCHANGED notImp

ImpNext ==
    \/ Imp_import_module
    \/ Imp_import_unreadable
    \/ Imp_import_known
    \/ Imp_module_done
    \/ Imp_def
    \/ Imp_command
    \/ Imp_value_definition
    \/ Imp_if_for
    \/ Imp_panic
    \/ Imp_main_done

SpecImport == ImpInit /\ [][ImpNext]_vars

\* the parsers always take their next step
FairImport == SpecImport /\ WF_vars(ImpNext)

(***************************************************************************)
(* C2: after an `import F` statement naming a readable file F has been     *)
(* processed, every name defined at F's top level is defined in the        *)
(* importer's innermost context -- also when F was already in the shared   *)
(* file map because another module of the same top-level parse imported    *)
(* (and parsed) it earlier.                                                *)
(***************************************************************************)
C2_ImportDefinesNames ==
    (impLast.op = "import" /\ impLast.parsed) =>
        TopLevelNames(impLast.file) \subseteq ContextNames(impLast.ctx)

\* what the code does guarantee: the import that parsed F defines F's names
C2_NewImportDefinesNames ==
    (impLast.op = "import" /\ impLast.is_new) =>
        TopLevelNames(impLast.file) \subseteq ContextNames(impLast.ctx)

\* the diamond: F was parsed for another module and is imported again by a
\* module that has none of its names
C2_DiamondReached ==
    /\ impLast.op = "import"
    /\ ~impLast.is_new
    /\ impLast.parsed
    /\ impLast.importer # "main"
    /\ impLast.ctx = {}

(***************************************************************************)
(* Properties of the parsers of one top-level parse.                       *)
(***************************************************************************)
ErrorReported == \E i \in 1..Len(diag) : diag[i].type \in {"Error", "Panic"}

ImportsOf(file) ==
    { disk[file][i].f : i \in { j \in 1..Len(disk[file]) : disk[file][j].k = "import" } }

NoDuplicates(s) == \A i, j \in 1..Len(s) : s[i] = s[j] => i = j

ParsingOver == impStatus \in {"execute", "exit1"}

\* C11: main() goes on to execute_main only if no Error or Panic was
\* reported by the parser of the main file or of any imported module; while
\* the parse runs, an error reported by any parser is held by the flag of a
\* parser that is still active, up to the top-level parser.
C11_ExecuteOnlyWithoutErrors ==
    /\ impStatus = "execute" => ~ErrorReported
    /\ (ErrorReported /\ impStatus = "parsing") =>
           \E i \in 1..Len(parsers) : parsers[i].m_has_error

\* the only errors are those of module C, which main does not import
\* itself, and the top-level parse exits
C11_TransitiveErrorStopsMain ==
    /\ impStatus = "exit1"
    /\ diag # <<>>
    /\ \A i \in 1..Len(diag) : diag[i].file = "C" /\ diag[i].type = "Error"
    /\ "C" \notin ImportsOf("main")

\* C12: no file has a parser constructed for it twice, and the top-level
\* parse comes to its end, whatever cycles the imports have.
C12_EachFileParsedOnceAndDone ==
    [](NoDuplicates(started)) /\ <>ParsingOver

\* A imports B and B imports A, both were parsed, and the parse is over
\* without a panic
C12_CycleParsedToTheEnd ==
    /\ ParsingOver
    /\ "B" \in ImportsOf("A")
    /\ "A" \in ImportsOf("B")
    /\ \E i, j \in 1..Len(started) : started[i] = "A" /\ started[j] = "B"
    /\ \A i \in 1..Len(diag) : diag[i].type # "Panic"

\* C13: the merge of an imported file's global context copies every name
\* the importer's innermost context does not define, leaves every name it
\* defines bound to its own definition, and reports one Error that lists
\* all conflicting names, or nothing when there is no conflict.
C13_MergeKeepsAndReports ==
    (impLast.op = "import" /\ impLast.is_new) =>
    LET pre       == impLast.pre
        other     == impLast.other
        after     == impLast.ctx
        conflicts == ContextNames(pre) \cap ContextNames(other)
    IN  /\ \A e \in other : e.name \notin ContextNames(pre) => e \in after
        /\ pre \subseteq after
        /\ \A e \in after : e.name \in ContextNames(pre) => e \in pre
        /\ after \subseteq pre \cup other
        /\ IF conflicts = {} THEN impLast.reported = <<>>
           ELSE /\ Len(impLast.reported) = 1
                /\ impLast.reported[1].type = "Error"
                /\ impLast.reported[1].file = impLast.importer
                /\ impLast.reported[1].names = conflicts

\* a merge with two conflicting names and a name that is copied
C13_TwoConflictsOneError ==
    /\ impLast.op = "import"
    /\ impLast.is_new
    /\ Cardinality(ContextNames(impLast.pre) \cap ContextNames(impLast.other)) >= 2
    /\ ContextNames(impLast.other) \ ContextNames(impLast.pre) # {}
    /\ Len(impLast.reported) = 1

\* C14 as stated: at the top level of an imported module an if, a for or a
\* command call is refused, and a def or any value definition is not.
C14_OnlyStatementsRefused ==
    (impLast.op = "stmt" /\ impLast.imported) =>
        (impLast.refused # <<>> <=> impLast.stmt.k \in {"if", "for", "use"})

\* C14 amended: a value definition whose expression is no constant is
\* refused as well; a def is accepted with an if, a for and a value
\* definition in its body, and the main file is refused nothing.
C14_StatementsAndComputedValuesRefused ==
    impLast.op = "stmt" =>
        /\ impLast.refused # <<>> <=>
               /\ impLast.imported
               /\ \/ impLast.stmt.k \in {"if", "for", "use"}
                  \/ impLast.stmt.k = "let" /\ ~impLast.stmt.is_constexpr
        /\ \A i \in 1..Len(impLast.refused) :
               /\ impLast.refused[i].type = "Error"
               /\ impLast.refused[i].msg = "Statements are not allowed in imported modules"
        /\ Len(impLast.refused) <= 1

\* a module's top-level value definition with a computed value was refused
C14_ComputedValueRefused ==
    /\ impLast.op = "stmt"
    /\ impLast.imported
    /\ impLast.stmt.k = "let"
    /\ ~impLast.stmt.is_constexpr
    /\ impLast.refused # <<>>

(***************************************************************************)
(* Values.  The engine computes with doubles; a double v is modelled by    *)
(* the integer v * Unit, so the model has the fractions k / Unit.          *)
(***************************************************************************)
Unit == 2

\* static_cast<double>(n) of an integer n
ToDouble(n) == n * Unit

\* A plausible slip: the conversion rounds to the nearest integer.
Mutant_ToInt(v) == (v + Unit \div 2) \div Unit

\* static_cast<int>(v): truncation toward zero
ToInt(v) == IF v >= 0 THEN v \div Unit ELSE -((-v) \div Unit)

\* std::fmod(v, 1.0) == 0.0
IsWhole(v) == v % Unit = 0

Abs(v) == IF v < 0 THEN -v ELSE v

(***************************************************************************)
(* EngineStack  (EngineStack.h): the Locals and the Captures FrameStack.   *)
(***************************************************************************)
Size(l, c) == [locals |-> l, captures |-> c]

SizeMinus(a, b) == Size(a.locals - b.locals, a.captures - b.captures)

EngineStack_reset == [m_locals |-> FrameStack_reset, m_captures |-> FrameStack_reset]

EngineStack_get_frame_size(s) ==
    Size(FrameStack_get_frame_size(s.m_locals), FrameStack_get_frame_size(s.m_captures))

EngineStack_get_stack_size(s) ==
    Size(FrameStack_get_stack_size(s.m_locals), FrameStack_get_stack_size(s.m_captures))

\* A plausible slip: one comparison of the two sizes taken together.
Mutant_check_stack_size(s, max_size) ==
    FrameStack_get_stack_size(s.m_locals) + FrameStack_get_stack_size(s.m_captures)
        <= max_size

EngineStack_check_stack_size(s, max_size) ==
    /\ FrameStack_get_stack_size(s.m_locals) < max_size
    /\ FrameStack_get_stack_size(s.m_captures) < max_size

EngineStack_get_capture_frame_start(s) == FrameStack_get_frame_start(s.m_captures)

\* the asserts of get_closure_position
EngineStack_get_closure_position_ok(s) ==
    /\ FrameStack_index_ok(s.m_locals, -1)
    /\ FrameStack_index(s.m_locals, -1) >= 0
    /\ IsWhole(FrameStack_index(s.m_locals, -1))

EngineStack_get_closure_position(s) == ToInt(FrameStack_index(s.m_locals, -1))

EngineStack_read_capture_ok(s, capture_offset) ==
    /\ EngineStack_get_closure_position_ok(s)
    /\ FrameStack_read_global_ok(s.m_captures,
                                 EngineStack_get_closure_position(s) + capture_offset)

EngineStack_read_capture(s, capture_offset) ==
    FrameStack_read_global(s.m_captures,
                           EngineStack_get_closure_position(s) + capture_offset)

EngineStack_push_frame0(s) ==
    [m_locals   |-> FrameStack_push_frame0(s.m_locals),
     m_captures |-> FrameStack_push_frame0(s.m_captures)]

EngineStack_push_frame_ok(s, args, params) ==
    /\ FrameStack_push_frame_ok(s.m_locals, args.locals, params.locals)
    /\ FrameStack_push_frame_ok(s.m_captures, args.captures, params.captures)

EngineStack_push_frame(s, args, params) ==
    [m_locals   |-> FrameStack_push_frame(s.m_locals, args.locals, params.locals),
     m_captures |-> FrameStack_push_frame(s.m_captures, args.captures, params.captures)]

EngineStack_pop_frame_ok(s) ==
    FrameStack_pop_frame_ok(s.m_locals) /\ FrameStack_pop_frame_ok(s.m_captures)

EngineStack_pop_frame(s) ==
    [m_locals   |-> FrameStack_pop_frame(s.m_locals),
     m_captures |-> FrameStack_pop_frame(s.m_captures)]

EngineStack_push(s, val) == [s EXCEPT !.m_locals = FrameStack_push(@, val)]

EngineStack_push_capture(s, val) == [s EXCEPT !.m_captures = FrameStack_push(@, val)]

EngineStack_pop_ok(s, size) ==
    FrameStack_pop_ok(s.m_locals, size.locals) /\ FrameStack_pop_ok(s.m_captures, size.captures)

EngineStack_pop(s, size) ==
    [m_locals   |-> FrameStack_pop(s.m_locals, size.locals),
     m_captures |-> FrameStack_pop(s.m_captures, size.captures)]

(***************************************************************************)
(* Expressions (Expr, the std::function<double()> the parser hands to the  *)
(* engine).  An expression of the model is a constant, an access to a      *)
(* stack slot, `unique`, or one of those plus a constant.                  *)
(***************************************************************************)
NoExpr == [k |-> "none"]

\* ExecutionEngine::compile_access_constant
compile_access_constant(val) == [k |-> "const", v |-> val]

\* ExecutionEngine::compile_access_value
compile_access_value(source, offset) == [k |-> "access", source |-> source, offset |-> offset]

\* ExecutionEngine::compile_unique_val_expr
compile_unique_val_expr == [k |-> "unique"]

\* create_binary_op_expr for '+' with a constant right operand
create_binary_op_expr(lhs, val) ==
    IF lhs.k = "const" THEN compile_access_constant(lhs.v + val)
    ELSE [k |-> "plus", lhs |-> lhs, v |-> val]

\* ExecutionEngine::read<source>: [ok, v]
read(s, source, offset) ==
    IF source = "Local"
    THEN [ok |-> FrameStack_index_ok(s.m_locals, offset),
          v  |-> IF FrameStack_index_ok(s.m_locals, offset)
                 THEN FrameStack_index(s.m_locals, offset) ELSE 0]
    ELSE IF source = "Capture"
    THEN [ok |-> EngineStack_read_capture_ok(s, offset),
          v  |-> IF EngineStack_read_capture_ok(s, offset)
                 THEN EngineStack_read_capture(s, offset) ELSE 0]
    ELSE [ok |-> FrameStack_read_global_ok(s.m_locals, offset),
          v  |-> IF FrameStack_read_global_ok(s.m_locals, offset)
                 THEN FrameStack_read_global(s.m_locals, offset) ELSE 0]

\* calling an Expr that is no sum: [ok, v, unique], unique the value of
\* m_next_unique_num afterwards
EvalOperand(x, s, unique) ==
    IF x.k = "const" THEN [ok |-> TRUE, v |-> x.v, unique |-> unique]
    ELSE IF x.k = "unique" THEN [ok |-> TRUE, v |-> ToDouble(unique), unique |-> unique + 1]
    ELSE [ok |-> read(s, x.source, x.offset).ok,
          v  |-> read(s, x.source, x.offset).v,
          unique |-> unique]

\* calling an Expr
Eval(x, s, unique) ==
    IF x.k = "plus"
    THEN [EvalOperand(x.lhs, s, unique) EXCEPT !.v = @ + x.v]
    ELSE EvalOperand(x, s, unique)

(***************************************************************************)
(* ExecutionEngine: building the program  (Engine.h, Engine.cpp).          *)
(* The engine is the record                                                *)
(*   [m_chunks, m_current_chunk, m_chunk_index_stack, m_stack,             *)
(*    m_current_closure_start_offset, m_is_executing, m_next_unique_num,   *)
(*    m_turtle]                                                            *)
(* Chunk indices are 0-based as in the source: chunk i is m_chunks[i + 1]. *)
(* A statement (std::function<void()>) is a record of what its lambda      *)
(* captured; the executor below runs it.                                   *)
(***************************************************************************)
no_chunk == -1

get_chunk(e, index) == e.m_chunks[index + 1]

Chunk_is_call_frame(c) == c.type \in {"function", "builtin_function"}

Chunk_is_local_block(c) == c.type = "local_block"

FunctionInfo_is_closure(c) == c.closure_offset >= 0

Chunk_is_closure(c) == Chunk_is_call_frame(c) /\ FunctionInfo_is_closure(c)

\* A plausible slip: the statement goes to the chunk created last.
Mutant_add_statement(e, stmt) ==
    [e EXCEPT !.m_chunks[Len(e.m_chunks)].statements = Append(@, stmt)]

add_statement(e, stmt) ==
    [e EXCEPT !.m_chunks[e.m_current_chunk + 1].statements = Append(@, stmt)]

\* A plausible slip: the frame size at the block's start is not recorded.
Mutant_push_chunk(e, type) ==
    [e EXCEPT
       !.m_chunk_index_stack = Append(@, e.m_current_chunk),
       !.m_current_chunk = Len(e.m_chunks),
       !.m_chunks = Append(@,
           [type           |-> type,
            params_size    |-> 0,
            closure_offset |-> -1,
            unwind_size    |-> Size(0, 0),
            statements     |-> <<>>])]

\* push_chunk: FunctionInfo::init / LocalBlockInfo::init; a local block
\* records the frame size at its start in its unwind size
push_chunk(e, type) ==
    [e EXCEPT
       !.m_chunk_index_stack = Append(@, e.m_current_chunk),
       !.m_current_chunk = Len(e.m_chunks),
       !.m_chunks = Append(@,
           [type           |-> type,
            params_size    |-> 0,
            closure_offset |-> -1,
            unwind_size    |-> IF type = "local_block"
                               THEN EngineStack_get_frame_size(e.m_stack)
                               ELSE Size(0, 0),
            statements     |-> <<>>])]

pop_chunk(e) ==
    LET c    == get_chunk(e, e.m_current_chunk)
        size == SizeMinus(EngineStack_get_frame_size(e.m_stack), c.unwind_size)
        e1   == IF Chunk_is_call_frame(c) THEN e
                ELSE [e EXCEPT !.m_chunks[e.m_current_chunk + 1].unwind_size = size,
                               !.m_stack = EngineStack_pop(@, size)]
    IN  [e1 EXCEPT !.m_current_chunk = Last(e.m_chunk_index_stack),
                   !.m_chunk_index_stack = Front(@)]

push_builtin_fn_chunk(e, params_size) ==
    LET e1 == push_chunk(e, "builtin_function")
    IN  [e1 EXCEPT !.m_chunks[e1.m_current_chunk + 1].params_size = params_size]

pop_builtin_fn_chunk(e) == pop_chunk(e)

push_call_frame_chunk(e) ==
    push_chunk([e EXCEPT !.m_stack = EngineStack_push_frame0(@)], "function")

pop_call_frame_chunk(e) ==
    LET e1 == pop_chunk(e) IN [e1 EXCEPT !.m_stack = EngineStack_pop_frame(@)]

push_local_block_chunk(e) == push_chunk(e, "local_block")

pop_local_block_chunk(e) == pop_chunk(e)

get_closure_capture_offset(e) ==
    EngineStack_get_frame_size(e.m_stack).captures - e.m_current_closure_start_offset

\* count pushes of m_parser_value_for_push (0.0)
PushN(f, count) == [f EXCEPT !.stack = @ \o [i \in 1..count |-> 0]]

\* push_for_parser: [eng, offset]
push_for_parser(e, dest, count) ==
    IF dest = "Local"
    THEN [eng    |-> [e EXCEPT !.m_stack.m_locals = PushN(@, count)],
          offset |-> EngineStack_get_frame_size(e.m_stack).locals]
    ELSE [eng    |-> [e EXCEPT !.m_stack.m_captures = PushN(@, count)],
          offset |-> get_closure_capture_offset(e)]

unwind_stack_for_parser(e, args_size) ==
    [e EXCEPT !.m_stack = EngineStack_pop(@, args_size)]

\* A plausible slip: every parameter is counted with the two slots of a
\* lambda parameter.
Mutant_compile_add_param(e, size) ==
    LET r == push_for_parser(e, "Local", size)
    IN  [eng    |-> [r.eng EXCEPT !.m_chunks[e.m_current_chunk + 1].params_size = @ + 2],
         offset |-> r.offset]

\* compile_add_param: [eng, offset]
compile_add_param(e, size) ==
    LET r == push_for_parser(e, "Local", size)
    IN  [eng    |-> [r.eng EXCEPT !.m_chunks[e.m_current_chunk + 1].params_size = @ + size],
         offset |-> r.offset]

create_closure(e, fn_index) ==
    LET closure_offset == EngineStack_get_frame_size(e.m_stack).captures
    IN  [e EXCEPT !.m_current_closure_start_offset = closure_offset,
                  !.m_chunks[fn_index + 1].closure_offset = closure_offset]

\* the compile_ functions that push return [eng, offset]
compile_push_value(e, dest, x) ==
    LET r == push_for_parser(e, dest, 1)
    IN  [eng    |-> add_statement(r.eng, [k |-> "push_value", dest |-> dest, expr |-> x]),
         offset |-> r.offset]

compile_push_constant(e, dest, val) ==
    LET r == push_for_parser(e, dest, 1)
    IN  [eng    |-> add_statement(r.eng, [k |-> "push_constant", dest |-> dest, val |-> val]),
         offset |-> r.offset]

compile_push_copy(e, dest_domain, source_domain, offset, size) ==
    LET r == push_for_parser(e, dest_domain, size)
    IN  [eng    |-> add_statement(r.eng,
                       [k |-> "push_copy", dest |-> dest_domain, source |-> source_domain,
                        offset |-> offset, size |-> size]),
         offset |-> r.offset]

compile_push_lambda(e, dest, fn_index, self_recursion) ==
    LET r == push_for_parser(e, dest, 2)
    IN  [eng    |-> add_statement(r.eng,
                       [k |-> "push_lambda", dest |-> dest, fn |-> fn_index,
                        self |-> self_recursion]),
         offset |-> r.offset]

\* A plausible slip: the loop variable's slot is not counted at parse time.
Mutant_compile_named_loop_var(e) ==
    [eng |-> e, offset |-> EngineStack_get_frame_size(e.m_stack).locals]

compile_named_loop_var(e) == push_for_parser(e, "Local", 1)

compile_start_fn_call(e, fn_index, self_recursion) ==
    add_statement(e, [k |-> "start_fn_call", fn |-> fn_index, self |-> self_recursion])

compile_call_fn(e, fn_index, args_size) ==
    add_statement(unwind_stack_for_parser(e, args_size),
                  [k |-> "call_fn", fn |-> fn_index, args |-> args_size])

compile_start_lambda_call(e, source, offset) ==
    add_statement(e, [k |-> "start_lambda_call", source |-> source, offset |-> offset])

compile_call_lambda_fn(e, source, offset, args_size) ==
    add_statement(unwind_stack_for_parser(e, args_size),
                  [k |-> "call_lambda_fn", source |-> source, offset |-> offset,
                   args |-> args_size])

\* A plausible slip: the two bodies of the if statement are exchanged.
Mutant_compile_if_statement(e, condition, if_body, else_body) ==
    add_statement(e, [k |-> "if", condition |-> condition, if_body |-> else_body,
                      else_body |-> if_body])

\* compile_if_statement: the statement calls condition, then one body
compile_if_statement(e, condition, if_body, else_body) ==
    add_statement(e, [k |-> "if", condition |-> condition, if_body |-> if_body,
                      else_body |-> else_body])

\* compile_for_loop: the form is decided here, from the Exprs that are set
compile_for_loop(e, start, step, end, block_index, has_named_loop_var) ==
    add_statement(e,
        [k     |-> "for",
         form  |-> IF end = NoExpr THEN "count"
                   ELSE IF step = NoExpr THEN "range" ELSE "full",
         start |-> start, step |-> step, end |-> end,
         block |-> block_index, named |-> has_named_loop_var])

\* setup_turtle_fn as add_builtin_cmd uses it: the turtle function with the
\* arguments read from Local offsets 0 .. nparams - 1
setup_turtle_fn(e, fn, nparams) ==
    add_statement(e, [k |-> "turtle", fn |-> fn, nparams |-> nparams])

(***************************************************************************)
(* Parser: names and the compile calls  (Parser.h, Parser.cpp, Names.h).   *)
(* The parser is the record                                                *)
(*   [pc, m_context_depth, m_function_def_stack, names, pending]           *)
(* names maps each declared name to its NameDefinition; the programs of    *)
(* the model declare every name once, so one map stands for the stack of   *)
(* contexts and pop_context removes the names of the context it pops.      *)
(* pending holds what the recursive-descent functions keep in their local  *)
(* variables while a construct is open.                                    *)
(***************************************************************************)
GlobalFunc == "!global"

\* NameDefinition::setup_decl
NameDef(kind, depth) ==
    [kind |-> kind, depth |-> depth, stack_offset |-> -1, chunk |-> no_chunk,
     captures |-> <<>>, is_constexpr |-> FALSE, value |-> 0]

\* Value::get_value_size / FunctionBase::get_value_size
get_value_size(def) == IF def.kind = "Value" THEN 1 ELSE 2

\* Parser::declare_name<NameType>
Parser_declare_name(p, name, kind) ==
    [p EXCEPT !.names = [n \in DOMAIN p.names \cup {name} |->
                            IF n = name THEN NameDef(kind, p.m_context_depth)
                            ELSE p.names[n]]]

Parser_push_context(p) == [p EXCEPT !.m_context_depth = @ + 1]

Parser_pop_context(p) ==
    [p EXCEPT !.m_context_depth = @ - 1,
              !.names = [n \in { m \in DOMAIN p.names :
                                   p.names[m].depth < p.m_context_depth } |-> p.names[n]]]

get_current_function(p) == Last(p.m_function_def_stack)

\* A plausible slip: only the builtins' context counts as global.
Mutant_get_name_domain(p, name) ==
    LET depth == p.names[name].depth IN
    IF depth <= 0 THEN "Global"
    ELSE IF name = get_current_function(p) THEN "Local"
    ELSE IF depth > p.names[get_current_function(p)].depth THEN "Local"
    ELSE "Capture"

get_name_domain(p, name) ==
    LET depth == p.names[name].depth IN
    IF depth <= 1 THEN "Global"
    ELSE IF name = get_current_function(p) THEN "Local"
    ELSE IF depth > p.names[get_current_function(p)].depth THEN "Local"
    ELSE "Capture"

\* add_capture: the offset it returns
RECURSIVE add_capture_scan(_, _, _, _)
add_capture_scan(p, captures, name, i) ==
    IF i > Len(captures) \/ captures[i] = name THEN 0
    ELSE get_value_size(p.names[captures[i]]) + add_capture_scan(p, captures, name, i + 1)

\* A plausible slip: every capture before the name counts one slot.
Mutant_add_capture_offset(p, fn, name) ==
    Cardinality({ i \in 1..Len(p.names[fn].captures) :
                    \A j \in 1..i : p.names[fn].captures[j] # name })

add_capture_offset(p, fn, name) == add_capture_scan(p, p.names[fn].captures, name, 1)

\* add_capture: the parser afterwards
add_capture(p, fn, name) ==
    IF \E i \in 1..Len(p.names[fn].captures) : p.names[fn].captures[i] = name THEN p
    ELSE [p EXCEPT !.names[fn].captures = Append(@, name)]

\* locate_name: [par, domain, offset]
locate_name(p, name) ==
    LET domain == get_name_domain(p, name) IN
    IF domain = "Capture"
    THEN [par    |-> add_capture(p, get_current_function(p), name),
          domain |-> domain,
          offset |-> add_capture_offset(p, get_current_function(p), name)]
    ELSE [par |-> p, domain |-> domain, offset |-> p.names[name].stack_offset]

is_self_recursion(p, domain, name) ==
    domain = "Local" /\ name = get_current_function(p)

\* A plausible slip: what locate_name noted in the parser is dropped.
Mutant_compile_push_object(st, name, dest) ==
    LET l   == locate_name(st.par, name)
        def == st.par.names[name]
    IN  IF def.kind = "Function" /\ l.domain # "Capture"
        THEN [par |-> st.par,
              eng |-> compile_push_lambda(st.eng, dest, def.chunk,
                                          is_self_recursion(st.par, l.domain, name)).eng]
        ELSE [par |-> st.par,
              eng |-> compile_push_copy(st.eng, dest, l.domain, l.offset,
                                        get_value_size(def)).eng]

\* compile_push_object: [par, eng]
compile_push_object(st, name, dest) ==
    LET l   == locate_name(st.par, name)
        def == st.par.names[name]
    IN  IF def.kind = "Function" /\ l.domain # "Capture"
        THEN [par |-> l.par,
              eng |-> compile_push_lambda(st.eng, dest, def.chunk,
                                          is_self_recursion(st.par, l.domain, name)).eng]
        ELSE [par |-> l.par,
              eng |-> compile_push_copy(st.eng, dest, l.domain, l.offset,
                                        get_value_size(def)).eng]

RECURSIVE compile_push_captures(_, _, _)
compile_push_captures(st, captures, i) ==
    IF i > Len(captures) THEN st
    ELSE compile_push_captures(compile_push_object(st, captures[i], "Capture"),
                               captures, i + 1)

\* create_closure_object: [par, eng]
create_closure_object(st, fn) ==
    LET def == st.par.names[fn] IN
    IF def.captures = <<>> THEN st
    ELSE compile_push_captures(
             [par |-> st.par, eng |-> create_closure(st.eng, def.chunk)],
             def.captures, 1)

(***************************************************************************)
(* Source expressions: a number, a name, `unique`, or one of these plus a  *)
(* number.                                                                 *)
(***************************************************************************)
Num(v) == [x |-> "num", v |-> v]
Name(n) == [x |-> "name", n |-> n]
Unique == [x |-> "unique"]
Plus(lhs, v) == [x |-> "plus", lhs |-> lhs, v |-> v]
None == [x |-> "none"]

\* parse_prefix_expression for an operand: [par, e]
parse_prefix_expression(p, x) ==
    IF x.x = "num" THEN [par |-> p, e |-> compile_access_constant(x.v)]
    ELSE IF x.x = "unique" THEN [par |-> p, e |-> compile_unique_val_expr]
    ELSE \* parse_named_value_expression
         IF p.names[x.n].is_constexpr
         THEN [par |-> p, e |-> compile_access_constant(p.names[x.n].value)]
         ELSE LET l == locate_name(p, x.n)
              IN  [par |-> l.par, e |-> compile_access_value(l.domain, l.offset)]

\* parse_expression: [par, e]; e is NoExpr for an absent expression
parse_expression(p, x) ==
    IF x.x = "none" THEN [par |-> p, e |-> NoExpr]
    ELSE IF x.x = "plus"
    THEN LET l == parse_prefix_expression(p, x.lhs)
         IN  [par |-> l.par, e |-> create_binary_op_expr(l.e, x.v)]
    ELSE parse_prefix_expression(p, x)

is_constexpr(e) == e.k = "const"

\* parse_param_def for each parameter: [par, eng]
RECURSIVE parse_fn_params(_, _, _)
parse_fn_params(st, params, i) ==
    IF i > Len(params) THEN st
    ELSE LET kind == IF params[i].lambda THEN "LambdaParameter" ELSE "Value"
             p1   == Parser_declare_name(st.par, params[i].name, kind)
             r    == compile_add_param(st.eng, IF params[i].lambda THEN 2 ELSE 1)
         IN  parse_fn_params(
                 [par |-> [p1 EXCEPT !.names[params[i].name].stack_offset = r.offset],
                  eng |-> r.eng],
                 params, i + 1)

\* EnterBlockRAII(parser, fndef): push_context, enter_fn_def
EnterBlock_fn(st, fn) ==
    LET e1 == push_call_frame_chunk(st.eng)
        p1 == Parser_push_context(st.par)
    IN  [par |-> [p1 EXCEPT !.m_function_def_stack = Append(@, fn),
                            !.names[fn].chunk = e1.m_current_chunk],
         eng |-> e1]

\* A plausible slip: exit_fn_def pops the chunk and leaves the compile-time
\* frame.
Mutant_FinishBlock_fn(st, fn) ==
    create_closure_object(
        [par |-> Parser_pop_context(
                     [st.par EXCEPT !.m_function_def_stack = Front(@)]),
         eng |-> pop_chunk(st.eng)],
        fn)

\* EnterBlockRAII::finish for a function: exit_fn_def, pop_context,
\* create_closure_object
FinishBlock_fn(st, fn) ==
    create_closure_object(
        [par |-> Parser_pop_context(
                     [st.par EXCEPT !.m_function_def_stack = Front(@)]),
         eng |-> pop_call_frame_chunk(st.eng)],
        fn)

\* EnterBlockRAII(parser): push_context, enter_local_block
EnterBlock_local(st) ==
    [par |-> Parser_push_context(st.par), eng |-> push_local_block_chunk(st.eng)]

\* EnterBlockRAII::finish for a local block
FinishBlock_local(st) ==
    [par |-> Parser_pop_context(st.par), eng |-> pop_local_block_chunk(st.eng)]

\* add_builtin_cmd: declare_builtin_cmd, push_builtin_fn_chunk,
\* builtin_cmd_helper, pop_builtin_fn_chunk
add_builtin_cmd(st, name, nparams) ==
    LET e1 == push_builtin_fn_chunk(st.eng, nparams)
        p1 == Parser_declare_name(st.par, name, "Function")
    IN  [par |-> [p1 EXCEPT !.names[name].chunk = e1.m_current_chunk],
         eng |-> pop_builtin_fn_chunk(setup_turtle_fn(e1, name, nparams))]

(***************************************************************************)
(* Programs.  A program is the sequence of constructs the parser meets;    *)
(* every event is one parse function's work up to the next nested          *)
(* construct.  The source text of each program is given with it.           *)
(***************************************************************************)
Param(name) == [name |-> name, lambda |-> FALSE]
LambdaParam(name) == [name |-> name, lambda |-> TRUE]

EDef(name, params) == [ev |-> "def", name |-> name, params |-> params]
EEnd == [ev |-> "end"]
ELet(name, x) == [ev |-> "let", name |-> name, x |-> x]
ECall(name) == [ev |-> "call", name |-> name]
EArg(x) == [ev |-> "arg_value", x |-> x]
EArgFn(name) == [ev |-> "arg_fn", name |-> name]
EAnon(name, params) == [ev |-> "anon", name |-> name, params |-> params]
EAnonEnd == [ev |-> "anon_end"]
ECallEnd == [ev |-> "call_end"]
EFor(var, start, step, end) ==
    [ev |-> "for", var |-> var, start |-> start, step |-> step, end |-> end]
EIf(cond) == [ev |-> "if", cond |-> cond]
EBlockEnd == [ev |-> "block_end"]
\* a statement that starts with a token no statement starts with
EBad == [ev |-> "bad"]
\* def name(params [lambda(] followed by a statement keyword
EDefPanic(name, params, lambda) ==
    [ev |-> "def_panic", name |-> name, params |-> params, lambda |-> lambda]
\* { => (params followed by a statement keyword
EAnonPanic(name, params) == [ev |-> "anon_panic", name |-> name, params |-> params]

\* def f() { f }  f
Prog_recurse == << EDef("f", <<>>), ECall("f"), ECallEnd, EEnd, ECall("f"), ECallEnd >>

\* def f(n) { f (n + 1) }  f 0
Prog_recurse_arg ==
    << EDef("f", <<Param("n")>>), ECall("f"), EArg(Plus(Name("n"), Unit)), ECallEnd, EEnd,
       ECall("f"), EArg(Num(0)), ECallEnd >>

\* def g(n) { def h() { r n }  def k() { r n }  g (n + 1) }  g 0
Prog_recurse_closures ==
    << EDef("g", <<Param("n")>>),
         EDef("h", <<>>), ECall("r"), EArg(Name("n")), ECallEnd, EEnd,
         EDef("k", <<>>), ECall("r"), EArg(Name("n")), ECallEnd, EEnd,
         ECall("g"), EArg(Plus(Name("n"), Unit)), ECallEnd,
       EEnd,
       ECall("g"), EArg(Num(0)), ECallEnd >>

\* def sq(a) { m a a }  x = unique  c = 3  sq x  sq c  z
Prog_calls ==
    << EDef("sq", <<Param("a")>>), ECall("m"), EArg(Name("a")), EArg(Name("a")), ECallEnd, EEnd,
       ELet("x", Unique), ELet("c", Num(3 * Unit)),
       ECall("sq"), EArg(Name("x")), ECallEnd,
       ECall("sq"), EArg(Name("c")), ECallEnd,
       ECall("z"), ECallEnd >>

\* def ap(fn(x), v) { fn v }  def one(a) { r a }  def zero() { z }
\* ap one 3  ap zero 4
Prog_lambda ==
    << EDef("ap", <<LambdaParam("fn"), Param("v")>>),
         ECall("fn"), EArg(Name("v")), ECallEnd, EEnd,
       EDef("one", <<Param("a")>>), ECall("r"), EArg(Name("a")), ECallEnd, EEnd,
       EDef("zero", <<>>), ECall("z"), ECallEnd, EEnd,
       ECall("ap"), EArgFn("one"), EArg(Num(3 * Unit)), ECallEnd,
       ECall("ap"), EArgFn("zero"), EArg(Num(4 * Unit)), ECallEnd >>

\* def ap(fn(x), v) { fn v }
\* def outer(n) {
\*     ap { => b  m b n } n
\*     def h(a) { if a { h (a - 1) }  m n a }
\*     h 1
\*     ap h 1
\* }
\* outer unique
Prog_closures ==
    << EDef("ap", <<LambdaParam("fn"), Param("v")>>),
         ECall("fn"), EArg(Name("v")), ECallEnd, EEnd,
       EDef("outer", <<Param("n")>>),
         ECall("ap"),
           EAnon("!anonymous", <<Param("b")>>),
             ECall("m"), EArg(Name("b")), EArg(Name("n")), ECallEnd,
           EAnonEnd,
           EArg(Name("n")),
         ECallEnd,
         EDef("h", <<Param("a")>>),
           EIf(Name("a")),
             ECall("h"), EArg(Plus(Name("a"), -Unit)), ECallEnd,
           EBlockEnd,
           ECall("m"), EArg(Name("n")), EArg(Name("a")), ECallEnd,
         EEnd,
         ECall("h"), EArg(Num(Unit)), ECallEnd,
         ECall("ap"), EArgFn("h"), EArg(Num(Unit)), ECallEnd,
       EEnd,
       ECall("outer"), EArg(Unique), ECallEnd >>

\* def f(n) { if n { f (n - 1) } }  f A
Prog_countdown(a) ==
    << EDef("f", <<Param("n")>>),
         EIf(Name("n")),
           ECall("f"), EArg(Plus(Name("n"), -Unit)), ECallEnd,
         EBlockEnd,
       EEnd,
       ECall("f"), EArg(Num(a)), ECallEnd >>

\* b = 0:  def o(q) { if q { )  r q  def f(p g( for 2 { r q } } }  o A
\* b = 1:  def ap(fn(x)) { fn 1 }
\*         def o(q) { for 2 { ap { => (b if q { r q } } }  o A
Prog_panic(a, b) ==
    IF b = 0
    THEN << EDef("o", <<Param("q")>>),
              EIf(Name("q")),
                EBad,
                ECall("r"), EArg(Name("q")), ECallEnd,
                EDefPanic("f", <<Param("p")>>, "g"),
                EFor("", Num(2 * Unit), None, None),
                  ECall("r"), EArg(Name("q")), ECallEnd,
                EBlockEnd,
              EBlockEnd,
            EEnd,
            ECall("o"), EArg(Num(a)), ECallEnd >>
    ELSE << EDef("ap", <<LambdaParam("fn")>>),
              ECall("fn"), EArg(Num(Unit)), ECallEnd, EEnd,
            EDef("o", <<Param("q")>>),
              EFor("", Num(2 * Unit), None, None),
                ECall("ap"),
                EAnonPanic("!anonymous", <<Param("b")>>),
                EIf(Name("q")),
                  ECall("r"), EArg(Name("q")), ECallEnd,
                EBlockEnd,
              EBlockEnd,
            EEnd,
            ECall("o"), EArg(Num(a)), ECallEnd >>

\* g = unique
\* def ap(fn(x)) { fn 1 }
\* def o(p) {
\*     q = unique
\*     def h(n) { if n { for 1 { m p q  h (n - 1) } }  m n g }
\*     ap h
\*     ap { => (x) m x p }
\* }
\* o A
Prog_scope(a) ==
    << ELet("g", Unique),
       EDef("ap", <<LambdaParam("fn")>>),
         ECall("fn"), EArg(Num(Unit)), ECallEnd, EEnd,
       EDef("o", <<Param("p")>>),
         ELet("q", Unique),
         EDef("h", <<Param("n")>>),
           EIf(Name("n")),
             EFor("", Num(Unit), None, None),
               ECall("m"), EArg(Name("p")), EArg(Name("q")), ECallEnd,
               ECall("h"), EArg(Plus(Name("n"), -Unit)), ECallEnd,
             EBlockEnd,
           EBlockEnd,
           ECall("m"), EArg(Name("n")), EArg(Name("g")), ECallEnd,
         EEnd,
         ECall("ap"), EArgFn("h"), ECallEnd,
         ECall("ap"),
           EAnon("!anonymous", <<Param("x")>>),
             ECall("m"), EArg(Name("x")), EArg(Name("p")), ECallEnd,
           EAnonEnd,
         ECallEnd,
       EEnd,
       ECall("o"), EArg(Num(a)), ECallEnd >>

\* a = A  def outer() { def inner() { r a } inner }  outer
\* (b = 1: a = unique)
Prog_cascade(a, b) ==
    << ELet("a", IF b = 0 THEN Num(a) ELSE Unique),
       EDef("outer", <<>>),
         EDef("inner", <<>>), ECall("r"), EArg(Name("a")), ECallEnd, EEnd,
         ECall("inner"), ECallEnd,
       EEnd,
       ECall("outer"), ECallEnd >>

\* def zero() { z }
\* def o(fn(), p) {
\*     q = unique
\*     def h() { z }
\*     def i() { r p  fn  h  r q  r p  fn  r q }
\*     i
\* }
\* o zero A
Prog_capture(a) ==
    << EDef("zero", <<>>), ECall("z"), ECallEnd, EEnd,
       EDef("o", <<LambdaParam("fn"), Param("p")>>),
         ELet("q", Unique),
         EDef("h", <<>>), ECall("z"), ECallEnd, EEnd,
         EDef("i", <<>>),
           ECall("r"), EArg(Name("p")), ECallEnd,
           ECall("fn"), ECallEnd,
           ECall("h"), ECallEnd,
           ECall("r"), EArg(Name("q")), ECallEnd,
           ECall("r"), EArg(Name("p")), ECallEnd,
           ECall("fn"), ECallEnd,
           ECall("r"), EArg(Name("q")), ECallEnd,
         EEnd,
         ECall("i"), ECallEnd,
       EEnd,
       ECall("o"), EArgFn("zero"), EArg(Num(a)), ECallEnd >>

\* the functions of the nested program, outermost first
Fname(i) == << "F0", "F1", "F2", "F3", "F4", "F5" >>[i + 1]

RECURSIVE Prog_nested_inner(_, _)
\* def Fi() { ... def Fn() { m x y }  Fn ... }  Fi
Prog_nested_inner(i, n) ==
    IF i > n
    THEN << ECall("m"), EArg(Name("x")), EArg(Name("y")), ECallEnd >>
    ELSE << EDef(Fname(i), <<>>) >> \o Prog_nested_inner(i + 1, n)
             \o << EEnd, ECall(Fname(i)), ECallEnd >>

\* def F0(x) { y = unique  def F1() { def F2() { m x y }  F2 }  F1 }  F0 A
\* with N levels F1 .. FN of functions inside F0
Prog_nested(a, n) ==
    << EDef("F0", <<Param("x")>>), ELet("y", Unique) >> \o Prog_nested_inner(1, n)
        \o << EEnd, ECall("F0"), EArg(Num(a)), ECallEnd >>

\* for (unique + A) { r unique }
Prog_for_count(a) ==
    << EFor("", Plus(Unique, a), None, None), ECall("r"), EArg(Unique), ECallEnd, EBlockEnd >>

\* for i = A..B { r i }
Prog_for_range(a, b) ==
    << EFor("i", Num(a), None, Num(b)), ECall("r"), EArg(Name("i")), ECallEnd, EBlockEnd >>

\* for i = A..S..B { r i }
Prog_for_full(a, s, b) ==
    << EFor("i", Num(a), Num(s), Num(b)), ECall("r"), EArg(Name("i")), ECallEnd, EBlockEnd >>

\* def f(n) { for i = unique..n { x = unique  def h() { m i x }  h } }
\* f A
\* for 2 { for j = 1..unique..B { r j } }
Prog_for_nested(a, b) ==
    << EDef("f", <<Param("n")>>),
         EFor("i", Unique, None, Name("n")),
           ELet("x", Unique),
           EDef("h", <<>>), ECall("m"), EArg(Name("i")), EArg(Name("x")), ECallEnd, EEnd,
           ECall("h"), ECallEnd,
         EBlockEnd,
       EEnd,
       ECall("f"), EArg(Num(a)), ECallEnd,
       EFor("", Num(2 * Unit), None, None),
         EFor("j", Num(Unit), Unique, Num(b)),
           ECall("r"), EArg(Name("j")), ECallEnd,
         EBlockEnd,
       EBlockEnd >>

\* the largest argument of the countdown program
MaxCountdown == 3

\* the most function levels below F0 in the nested program
MaxLevels == 3

\* the values A, S, B of the loop programs, in units of 1 / Unit
LoopVals == { -Unit, 0, 1, Unit, 3, 3 * Unit }
StepVals == { -Unit, 0, 1, Unit, 5 }
CountVals == { -3 * Unit, -3, -1, 0, 1, 3, 2 * Unit }

Input(id, a, s, b) == [id |-> id, a |-> a, s |-> s, b |-> b]

Inputs ==
    { Input(id, 0, 0, 0) : id \in {"recurse", "recurse_arg", "recurse_closures",
                                   "calls", "lambda", "closures"} }
    \cup { Input("countdown", ToDouble(k), 0, 0) : k \in 0..MaxCountdown }
    \cup { Input("nested", a, 0, n) : a \in {Unit, 2 * Unit}, n \in 2..MaxLevels }
    \cup { Input("capture", a, 0, 0) : a \in {Unit, 3 * Unit} }
    \cup { Input("cascade", 5 * Unit, 0, b) : b \in {0, 1} }
    \cup { Input("panic", Unit, 0, b) : b \in {0, 1} }
    \cup { Input("scope", a, 0, 0) : a \in {3 * Unit, 5 * Unit} }
    \cup { Input("for_count", a, 0, 0) : a \in CountVals }
    \cup { Input("for_range", a, 0, b) : a \in LoopVals, b \in LoopVals }
    \cup { Input("for_full", a, s, b) : a \in LoopVals, s \in StepVals, b \in LoopVals }
    \cup { Input("for_nested", a, 0, b) : a \in {Unit, 2 * Unit}, b \in {Unit, 3 * Unit} }

Program(in) ==
    CASE in.id = "recurse" -> Prog_recurse
      [] in.id = "recurse_arg" -> Prog_recurse_arg
      [] in.id = "recurse_closures" -> Prog_recurse_closures
      [] in.id = "calls" -> Prog_calls
      [] in.id = "lambda" -> Prog_lambda
      [] in.id = "closures" -> Prog_closures
      [] in.id = "countdown" -> Prog_countdown(in.a)
      [] in.id = "nested" -> Prog_nested(in.a, in.b)
      [] in.id = "capture" -> Prog_capture(in.a)
      [] in.id = "cascade" -> Prog_cascade(in.a, in.b)
      [] in.id = "panic" -> Prog_panic(in.a, in.b)
      [] in.id = "scope" -> Prog_scope(in.a)
      [] in.id = "for_count" -> Prog_for_count(in.a)
      [] in.id = "for_range" -> Prog_for_range(in.a, in.b)
      [] in.id = "for_full" -> Prog_for_full(in.a, in.s, in.b)
      [] in.id = "for_nested" -> Prog_for_nested(in.a, in.b)
      [] OTHER -> <<>>

(***************************************************************************)
(* Parsing a program: Parser::parse and the parse functions.               *)
(***************************************************************************)
NewEngine ==
    [m_chunks |-> <<>>, m_current_chunk |-> no_chunk, m_chunk_index_stack |-> <<>>,
     m_stack |-> EngineStack_reset, m_current_closure_start_offset |-> 0,
     m_is_executing |-> FALSE, m_next_unique_num |-> 1, m_turtle |-> <<>>]

NewParserState ==
    [pc |-> 1, m_context_depth |-> 0, m_function_def_stack |-> <<>>,
     names |-> [n \in {GlobalFunc} |-> NameDef("Function", 0)], pending |-> <<>>,
     closed |-> <<>>, m_has_error |-> FALSE]

\* prepare_builtin_names (the turtle commands z, r and m of it), then
\* EnterBlockRAII block(this, m_global_func.get())
ParseStart ==
    EnterBlock_fn(
        add_builtin_cmd(
            add_builtin_cmd(
                add_builtin_cmd([par |-> NewParserState, eng |-> NewEngine], "z", 0),
                "r", 1),
            "m", 2),
        GlobalFunc)

NoCall == [op |-> "none"]
NoLoopSeen == [op |-> "none"]
NoCheck == [op |-> "none"]

EngInit ==
    /\ ExprIdle
    /\ NamesIdle
    /\ RecIdle
    /\ FSIdle
    /\ SigIdle
    /\ ImpIdle
    /\ prog \in Inputs
    /\ par = ParseStart.par
    /\ eng = ParseStart.eng
    /\ cstack = <<>>
    /\ status = "parsing"
    /\ lastCall = NoCall
    /\ entered = <<>>
    /\ lastLoop = NoLoopSeen
    /\ lastCheck = NoCheck

St == [par |-> par, eng |-> eng]

At(kind) ==
    /\ status = "parsing"
    /\ par.pc <= Len(Program(prog))
    /\ Program(prog)[par.pc].ev = kind

Event == Program(prog)[par.pc]

\* the parse function returns to parse_statement_list: next construct
\* what EnterBlockRAII changes: the context depth, the function definition
\* stack, the engine's current chunk and the compile-time frames
ScopeOf(p, e) ==
    [depth  |-> p.m_context_depth,
     fndefs |-> Len(p.m_function_def_stack),
     chunk  |-> e.m_current_chunk,
     frames |-> << FrameStack_get_num_frames(e.m_stack.m_locals),
                   FrameStack_get_num_frames(e.m_stack.m_captures) >>]

\* for the properties: a construct that stays open beyond this step keeps
\* the scope found when its parse function was entered
NoteEntry(pending) ==
    IF Len(pending) = Len(par.pending) + 1
    THEN Append(Front(pending), Last(pending) @@ [at |-> ScopeOf(par, eng)])
    ELSE pending

Advance(st, pending) ==
    /\ par' = [st.par EXCEPT !.pc = par.pc + 1, !.pending = NoteEntry(pending)]
    /\ eng' = st.eng
    /\ UNCHANGED <<prog, cstack, status, lastCall, entered, lastLoop, lastCheck>>
    /\ UNCHANGED notEng

\* parse_fn_definition up to the body
Parse_fn_definition ==
    /\ At("def")
    /\ LET p1 == Parser_declare_name(par, Event.name, "Function")
           st == parse_fn_params(EnterBlock_fn([par |-> p1, eng |-> eng], Event.name),
                                 Event.params, 1)
       IN  Advance(st, Append(par.pending, [k |-> "def", fn |-> Event.name]))

\* for the properties: the capture list fn has when its definition is closed
\* (its NameDef goes with the context it was declared in)
NoteClosed(st, fn) ==
    [st EXCEPT !.par.closed =
        Append(@, [fn |-> fn, captures |-> st.par.names[fn].captures])]

\* parse_fn_definition from the end of the body: block.finish()
Parse_fn_definition_end ==
    /\ At("end")
    /\ Last(par.pending).k = "def"
    /\ Advance(NoteClosed(FinishBlock_fn(St, Last(par.pending).fn),
                           Last(par.pending).fn),
               Front(par.pending))

\* parse_value_definition
Parse_value_definition ==
    /\ At("let")
    /\ LET p1 == Parser_declare_name(par, Event.name, "Value")
           r  == parse_expression(p1, Event.x)
           c  == compile_push_value(eng, "Local", r.e)
       IN  IF is_constexpr(r.e)
           THEN Advance([par |-> [r.par EXCEPT !.names[Event.name].is_constexpr = TRUE,
                                               !.names[Event.name].value = r.e.v],
                         eng |-> eng],
                        par.pending)
           ELSE Advance([par |-> [r.par EXCEPT !.names[Event.name].stack_offset = c.offset],
                         eng |-> c.eng],
                        par.pending)

\* parse_command_statement, parse_fn_call up to the arguments
Parse_fn_call ==
    /\ At("call")
    /\ LET l      == locate_name(par, Event.name)
           def    == par.names[Event.name]
           lambda == l.domain = "Capture" \/ def.kind = "LambdaParameter"
           e1     == IF lambda
                     THEN compile_start_lambda_call(eng, l.domain, l.offset)
                     ELSE compile_start_fn_call(eng, def.chunk,
                                                is_self_recursion(par, l.domain, Event.name))
       IN  Advance([par |-> l.par, eng |-> e1],
                   Append(par.pending,
                          [k |-> "call", fn |-> Event.name, source |-> l.domain,
                           offset |-> l.offset, is_lambda_call |-> lambda,
                           original_frame_size |-> EngineStack_get_frame_size(e1.m_stack)]))

\* parse_argument for a value parameter
Parse_argument_value ==
    /\ At("arg_value")
    /\ LET r == parse_expression(par, Event.x)
       IN  Advance([par |-> r.par,
                    eng |-> IF is_constexpr(r.e)
                            THEN compile_push_constant(eng, "Local", r.e.v).eng
                            ELSE compile_push_value(eng, "Local", r.e).eng],
                   par.pending)

\* parse_argument for a lambda parameter given by name: compile_push_local
Parse_argument_fn ==
    /\ At("arg_fn")
    /\ Advance(compile_push_object(St, Event.name, "Local"), par.pending)

\* parse_argument for a lambda parameter given as { => params body }:
\* parse_anonymous_fn_definition up to the body
Parse_anonymous_fn_definition ==
    /\ At("anon")
    /\ LET p1 == Parser_declare_name(par, Event.name, "Function")
           st == parse_fn_params(EnterBlock_fn([par |-> p1, eng |-> eng], Event.name),
                                 Event.params, 1)
       IN  Advance(st, Append(par.pending, [k |-> "anon", fn |-> Event.name]))

\* the end of the anonymous function, then compile_push_local of it
Parse_anonymous_fn_end ==
    /\ At("anon_end")
    /\ Last(par.pending).k = "anon"
    /\ Advance(compile_push_object(FinishBlock_fn(St, Last(par.pending).fn),
                                   Last(par.pending).fn, "Local"),
               Front(par.pending))

\* parse_fn_call after the arguments
Parse_fn_call_end ==
    /\ At("call_end")
    /\ Last(par.pending).k = "call"
    /\ LET c         == Last(par.pending)
           args_size == SizeMinus(EngineStack_get_frame_size(eng.m_stack),
                                  c.original_frame_size)
       IN  Advance([par |-> par,
                    eng |-> IF c.is_lambda_call
                            THEN compile_call_lambda_fn(eng, c.source, c.offset, args_size)
                            ELSE compile_call_fn(eng, par.names[c.fn].chunk, args_size)],
                   Front(par.pending))

\* parse_for_statement_body up to the body: the expressions, then
\* parse_local_body enters the block and declares the loop variable.  With
\* the block, pending keeps the frame size found when it was entered.
Parse_for_statement ==
    /\ At("for")
    /\ LET s   == parse_expression(par, Event.start)
           t   == parse_expression(s.par, Event.step)
           e   == parse_expression(t.par, Event.end)
           b   == EnterBlock_local([par |-> e.par, eng |-> eng])
           v   == compile_named_loop_var(b.eng)
           p1  == Parser_declare_name(b.par, Event.var, "Value")
           st  == IF Event.var = "" THEN b
                  ELSE [par |-> [p1 EXCEPT !.names[Event.var].stack_offset = v.offset],
                        eng |-> v.eng]
       IN  Advance(st, Append(par.pending,
                              [k |-> "for", start |-> s.e, step |-> t.e, end |-> e.e,
                               named |-> Event.var # "",
                               chunk |-> b.eng.m_current_chunk,
                               enter |-> EngineStack_get_frame_size(eng.m_stack)]))

\* parse_if_statement up to the body
Parse_if_statement ==
    /\ At("if")
    /\ LET c == parse_expression(par, Event.cond)
           b == EnterBlock_local([par |-> c.par, eng |-> eng])
       IN  Advance(b, Append(par.pending,
                             [k |-> "if", condition |-> c.e,
                              chunk |-> b.eng.m_current_chunk,
                              enter |-> EngineStack_get_frame_size(eng.m_stack)]))

\* the end of a local body, then compile_for_loop or compile_if_statement
Parse_local_body_end ==
    /\ At("block_end")
    /\ Last(par.pending).k \in {"for", "if"}
    /\ LET c  == Last(par.pending)
           st == FinishBlock_local(St)
       IN  Advance([par |-> st.par,
                    eng |-> IF c.k = "for"
                            THEN compile_for_loop(st.eng, c.start, c.step, c.end,
                                                  c.chunk, c.named)
                            ELSE compile_if_statement(st.eng, c.condition, c.chunk, 0)],
                   Front(par.pending))

\* report_error(Error, ...), then the unwinding of a PanicException up to
\* the catch of parse_statement and synchronize_after_panic, which skips to
\* the next statement
Panicked(st, pending) ==
    Advance([par |-> [st.par EXCEPT !.m_has_error = TRUE], eng |-> st.eng], pending)

\* parse_statement at a token that starts no statement, or
\* parse_command_statement at an undefined name: the throw comes before
\* anything is compiled
Parse_statement_panic ==
    /\ At("bad")
    /\ Panicked(St, par.pending)

\* parse_param_def up to the '(' of a lambda parameter: the name is
\* declared, compile_add_param is not reached
declare_lambda_param(st, name) ==
    IF name = "" THEN st
    ELSE [par |-> Parser_declare_name(st.par, name, "LambdaParameter"),
          eng |-> st.eng]

\* parse_fn_definition when synchronize_for_fn_params meets a statement
\* keyword in the parameter list: the PanicException leaves through
\* ~EnterBlockRAII, whose finish() closes the function
Parse_fn_definition_panic ==
    /\ At("def_panic")
    /\ LET p1 == Parser_declare_name(par, Event.name, "Function")
           st == declare_lambda_param(
                     parse_fn_params(
                         EnterBlock_fn([par |-> p1, eng |-> eng], Event.name),
                         Event.params, 1),
                     Event.lambda)
       IN  Panicked(NoteClosed(FinishBlock_fn(st, Event.name), Event.name),
                    par.pending)

\* parse_anonymous_fn_definition in an argument of a call when the parameter
\* list panics: ~EnterBlockRAII closes the function, and parse_argument and
\* parse_fn_call are left without compile_call_fn
Parse_anonymous_fn_panic ==
    /\ At("anon_panic")
    /\ Last(par.pending).k = "call"
    /\ LET p1 == Parser_declare_name(par, Event.name, "Function")
           st == parse_fn_params(EnterBlock_fn([par |-> p1, eng |-> eng], Event.name),
                                 Event.params, 1)
       IN  Panicked(FinishBlock_fn(st, Event.name), Front(par.pending))

\* Parser::parse at the end of the file: exit(1) after an error, else the
\* global block finishes
Parse_eof ==
    /\ status = "parsing"
    /\ par.pc > Len(Program(prog))
    /\ LET st == IF par.m_has_error THEN St ELSE FinishBlock_fn(St, GlobalFunc)
       IN  /\ par' = st.par
           /\ eng' = st.eng
    /\ status' = IF par.m_has_error THEN "exit" ELSE "parsed"
    /\ UNCHANGED <<prog, cstack, lastCall, entered, lastLoop, lastCheck>>
    /\ UNCHANGED notEng

(***************************************************************************)
(* Executing the program  (Engine.cpp, Engine.h).  cstack is the chain of  *)
(* exec_fn_body / exec_call_local_block activations: for each              *)
(*   [chunk, pc, kind, args_size, has_closure_position, mark, ret, call,   *)
(*    loop]                                                                *)
(* chunk and pc are the statement list and the statement being run, mark   *)
(* the stack sizes just before the start statement of the call being       *)
(* prepared, ret the mark of the call this activation runs, and loop the   *)
(* local variables of the for statement at pc while it iterates.           *)
(***************************************************************************)
infinite_recursion_limit == 12  \* 1000000 in the source
MaxNesting == 16                \* activations the native stack holds
MaxIter == 6                    \* iterations of one for statement explored
MaxOut == 12                    \* turtle commands explored

NoLoop == [active |-> FALSE]
NoMark == Size(-1, -1)

Activation(chunk, kind, args_size, has_closure_position, ret, call) ==
    [chunk |-> chunk, pc |-> 1, kind |-> kind, args_size |-> args_size,
     has_closure_position |-> has_closure_position, mark |-> NoMark,
     ret |-> ret, call |-> call, loop |-> NoLoop]

Top == cstack[Len(cstack)]

TopChunk == get_chunk(eng, Top.chunk)

Stmt == TopChunk.statements[Top.pc]

Executing ==
    /\ status = "executing"
    /\ cstack # <<>>

Running(kind) ==
    /\ Executing
    /\ ~Top.loop.active
    /\ Top.pc <= Len(TopChunk.statements)
    /\ Stmt.k = kind

SetTopOf(cs, a) == [cs EXCEPT ![Len(cs)] = a]

\* execution stops: an assert fails, the native stack is exhausted, or the
\* exploration is cut
Halt(how) ==
    /\ status' = how
    /\ cstack' = <<>>
    /\ UNCHANGED <<prog, par, eng, lastCall, entered, lastLoop, lastCheck>>
    /\ UNCHANGED notEng

\* the statement at pc is done
NextStatement(e1, top1) ==
    /\ eng' = e1
    /\ cstack' = SetTopOf(cstack, [top1 EXCEPT !.pc = @ + 1])
    /\ UNCHANGED <<prog, par, status, lastCall, entered, lastLoop, lastCheck>>
    /\ UNCHANGED notEng

\* exec_statements on entry: the infinite-recursion guard.  e1 is the engine
\* and cs1 the activations when the new statement list is entered.
exec_statements(e1, cs1, activation) ==
    IF Len(cs1) >= MaxNesting
    THEN /\ status' = "StackExhausted"
         /\ cstack' = <<>>
         /\ eng' = e1
         /\ lastCheck' = lastCheck
    ELSE /\ lastCheck' =
               [op     |-> "check",
                size   |-> EngineStack_get_stack_size(e1.m_stack),
                thrown |-> ~EngineStack_check_stack_size(e1.m_stack,
                                                         infinite_recursion_limit)]
         /\ eng' = e1
         /\ IF EngineStack_check_stack_size(e1.m_stack, infinite_recursion_limit)
            THEN /\ cstack' = Append(cs1, activation)
                 /\ status' = status
            ELSE /\ cstack' = <<>>
                 /\ status' = "InfiniteRecursion"

\* get_fn_call_closure_position<self_recursion>: [ok, v]
\* A plausible slip: a self-recursive call computes its closure position as
\* any other call does.
Mutant_get_fn_call_closure_position(s, self_recursion, c) ==
    [ok |-> EngineStack_get_capture_frame_start(s) + c.closure_offset >= 0,
     v  |-> EngineStack_get_capture_frame_start(s) + c.closure_offset]

get_fn_call_closure_position(s, self_recursion, c) ==
    IF self_recursion
    THEN [ok |-> EngineStack_get_closure_position_ok(s),
          v  |-> IF EngineStack_get_closure_position_ok(s)
                 THEN EngineStack_get_closure_position(s) ELSE 0]
    ELSE [ok |-> EngineStack_get_capture_frame_start(s) + c.closure_offset >= 0,
          v  |-> EngineStack_get_capture_frame_start(s) + c.closure_offset]

\* ExecutionEngine::push<dest>
push(s, dest, value) ==
    IF dest = "Local" THEN EngineStack_push(s, value) ELSE EngineStack_push_capture(s, value)

\* exec_start_fn_call<dest, self_recursion, is_lambda_call>: [ok, stack]
exec_start_fn_call(e, dest, self_recursion, is_lambda_call, chunk_index) ==
    LET s1  == IF is_lambda_call THEN push(e.m_stack, dest, ToDouble(chunk_index))
               ELSE e.m_stack
        c   == get_chunk(e, chunk_index)
        pos == get_fn_call_closure_position(s1, self_recursion, c)
    IN  IF Chunk_is_closure(c)
        THEN [ok |-> pos.ok, stack |-> push(s1, dest, ToDouble(pos.v))]
        ELSE IF is_lambda_call
        THEN [ok |-> TRUE, stack |-> push(s1, dest, 0)]
        ELSE [ok |-> TRUE, stack |-> s1]

\* copy_stack<source, dest>: [ok, stack]
RECURSIVE copy_stack(_, _, _, _, _)
copy_stack(s, source, dest, i, end) ==
    IF i >= end THEN [ok |-> TRUE, stack |-> s]
    ELSE IF ~read(s, source, i).ok THEN [ok |-> FALSE, stack |-> s]
    ELSE copy_stack(push(s, dest, read(s, source, i).v), source, dest, i + 1, end)

\* A plausible slip: the closure-position word is left on Locals.
Mutant_exec_fn_body_pop_size(has_closure_position, args_size) ==
    Size(0, args_size.captures)

\* exec_fn_body: what is popped after the frame
exec_fn_body_pop_size(has_closure_position, args_size) ==
    Size(IF has_closure_position THEN 1 ELSE 0, args_size.captures)

\* the statement of compile_start_fn_call
Exec_start_fn_call ==
    /\ Running("start_fn_call")
    /\ LET r == exec_start_fn_call(eng, "Local", Stmt.self, FALSE, Stmt.fn)
       IN  IF r.ok
           THEN NextStatement([eng EXCEPT !.m_stack = r.stack],
                              [Top EXCEPT !.mark = EngineStack_get_stack_size(eng.m_stack)])
           ELSE Halt("AssertFailed")

\* the statement of compile_push_lambda
Exec_push_lambda ==
    /\ Running("push_lambda")
    /\ LET r == exec_start_fn_call(eng, Stmt.dest, Stmt.self, TRUE, Stmt.fn)
       IN  IF r.ok
           THEN NextStatement([eng EXCEPT !.m_stack = r.stack], Top)
           ELSE Halt("AssertFailed")

\* the statement of compile_start_lambda_call
Exec_start_lambda_call ==
    /\ Running("start_lambda_call")
    /\ LET r == read(eng.m_stack, Stmt.source, Stmt.offset + 1)
       IN  IF r.ok
           THEN NextStatement([eng EXCEPT !.m_stack = EngineStack_push(@, r.v)],
                              [Top EXCEPT !.mark = EngineStack_get_stack_size(eng.m_stack)])
           ELSE Halt("AssertFailed")

\* the statement of compile_push_value
Exec_push_value ==
    /\ Running("push_value")
    /\ LET r == Eval(Stmt.expr, eng.m_stack, eng.m_next_unique_num)
       IN  IF r.ok
           THEN NextStatement([eng EXCEPT !.m_stack = push(@, Stmt.dest, r.v),
                                          !.m_next_unique_num = r.unique],
                              Top)
           ELSE Halt("AssertFailed")

\* the statement of compile_push_constant
Exec_push_constant ==
    /\ Running("push_constant")
    /\ NextStatement([eng EXCEPT !.m_stack = push(@, Stmt.dest, Stmt.val)], Top)

\* the statement of compile_push_copy
Exec_push_copy ==
    /\ Running("push_copy")
    /\ LET r == copy_stack(eng.m_stack, Stmt.source, Stmt.dest, Stmt.offset,
                           Stmt.offset + Stmt.size)
       IN  IF r.ok
           THEN NextStatement([eng EXCEPT !.m_stack = r.stack], Top)
           ELSE Halt("AssertFailed")

\* exec_fn_body up to the statements: push_frame, then exec_statements
exec_fn_body(fn_index, args_size, has_closure_position, call) ==
    LET c      == get_chunk(eng, fn_index)
        args   == Size(args_size.locals, 0)
        params == Size(c.params_size, 0)
    IN  IF /\ fn_index >= 0
           /\ fn_index < Len(eng.m_chunks)
           /\ Chunk_is_call_frame(c)
           /\ EngineStack_push_frame_ok(eng.m_stack, args, params)
        THEN /\ exec_statements(
                    [eng EXCEPT !.m_stack = EngineStack_push_frame(@, args, params)],
                    cstack,
                    Activation(fn_index, "fn", args_size, has_closure_position,
                               Top.mark, call))
             /\ entered' =
                    Append(entered,
                           [fn   |-> fn_index,
                            args |-> [i \in 1..c.params_size |->
                                        read(EngineStack_push_frame(eng.m_stack, args, params),
                                             "Local", i - 1).v]])
             /\ UNCHANGED <<prog, par, lastCall, lastLoop>>
             /\ UNCHANGED notEng
        ELSE Halt("AssertFailed")

\* the statement of compile_call_fn: exec_call_fn
Exec_call_fn ==
    /\ Running("call_fn")
    /\ exec_fn_body(Stmt.fn, Stmt.args,
                    FunctionInfo_is_closure(get_chunk(eng, Stmt.fn)), "fn")

\* the statement of compile_call_lambda_fn: exec_call_lambda
Exec_call_lambda_fn ==
    /\ Running("call_lambda_fn")
    /\ LET r == read(eng.m_stack, Stmt.source, Stmt.offset)
       IN  IF r.ok /\ r.v >= 0 /\ IsWhole(r.v)
           THEN exec_fn_body(ToInt(r.v), Stmt.args, TRUE, "lambda")
           ELSE Halt("AssertFailed")

\* the arguments of a builtin: Local offsets 0 .. nparams - 1
TurtleArgs(s, nparams) == [i \in 1..nparams |-> read(s, "Local", i - 1)]

\* the statement of setup_turtle_fn
Exec_turtle ==
    /\ Running("turtle")
    /\ LET args == TurtleArgs(eng.m_stack, Stmt.nparams)
       IN  IF \E i \in 1..Stmt.nparams : ~args[i].ok THEN Halt("AssertFailed")
           ELSE IF Len(eng.m_turtle) >= MaxOut THEN Halt("cut")
           ELSE NextStatement(
                    [eng EXCEPT !.m_turtle =
                        Append(@, [fn |-> Stmt.fn,
                                   args |-> [i \in 1..Stmt.nparams |-> args[i].v]])],
                    Top)

\* exec_fn_body after the statements: pop_frame, pop; back in the caller
\* the call statement is done.  The outermost activation is execute_main's
\* call of the main chunk.
Exec_fn_return ==
    /\ Executing
    /\ Top.kind = "fn"
    /\ Top.pc > Len(TopChunk.statements)
    /\ LET s1       == EngineStack_pop_frame(eng.m_stack)
           pop_size == exec_fn_body_pop_size(Top.has_closure_position, Top.args_size)
           s2       == EngineStack_pop(s1, pop_size)
       IN  IF EngineStack_pop_frame_ok(eng.m_stack) /\ EngineStack_pop_ok(s1, pop_size)
           THEN /\ eng' = [eng EXCEPT !.m_stack = s2]
                /\ lastCall' = [op     |-> "return",
                                call   |-> Top.call,
                                type   |-> TopChunk.type,
                                closure |-> FunctionInfo_is_closure(TopChunk),
                                args   |-> Top.args_size,
                                before |-> Top.ret,
                                after  |-> EngineStack_get_stack_size(s2)]
                /\ IF Len(cstack) = 1
                   THEN cstack' = <<>> /\ status' = "done"
                   ELSE /\ cstack' = SetTopOf(Front(cstack),
                                       [cstack[Len(cstack) - 1] EXCEPT !.pc = @ + 1,
                                                                      !.mark = NoMark])
                        /\ status' = status
                /\ UNCHANGED <<prog, par, entered, lastLoop, lastCheck>>
                /\ UNCHANGED notEng
           ELSE Halt("AssertFailed")

\* main(): execute_main(parser.get_main())
execute_main ==
    /\ status = "parsed"
    /\ LET e1 == [eng EXCEPT !.m_stack = EngineStack_push_frame(
                                             EngineStack_reset, Size(0, 0), Size(0, 0)),
                             !.m_is_executing = TRUE]
           main == par.names[GlobalFunc].chunk
       IN  /\ lastCheck' =
                 [op     |-> "check",
                  size   |-> EngineStack_get_stack_size(e1.m_stack),
                  thrown |-> ~EngineStack_check_stack_size(e1.m_stack,
                                                           infinite_recursion_limit)]
           /\ eng' = e1
           /\ cstack' = << Activation(main, "fn", Size(0, 0),
                                      FunctionInfo_is_closure(get_chunk(eng, main)),
                                      Size(0, 0), "main") >>
           /\ status' = "executing"
    /\ UNCHANGED <<prog, par, lastCall, entered, lastLoop>>
    /\ UNCHANGED notEng

\* exec_call_local_block up to the statements
exec_call_local_block(e1, cs1, block_index) ==
    IF /\ block_index >= 0
       /\ block_index < Len(e1.m_chunks)
       /\ Chunk_is_local_block(get_chunk(e1, block_index))
    THEN exec_statements(e1, cs1,
                         Activation(block_index, "block", Size(0, 0), FALSE, NoMark, "block"))
    ELSE /\ status' = "AssertFailed"
         /\ cstack' = <<>>
         /\ eng' = e1
         /\ lastCheck' = lastCheck

\* the statement of compile_if_statement
Exec_if ==
    /\ Running("if")
    /\ LET r == Eval(Stmt.condition, eng.m_stack, eng.m_next_unique_num)
           e1 == [eng EXCEPT !.m_next_unique_num = r.unique]
       IN  IF ~r.ok THEN Halt("AssertFailed")
           ELSE IF r.v # 0
           THEN /\ exec_call_local_block(e1, cstack, Stmt.if_body)
                /\ UNCHANGED <<prog, par, lastCall, entered, lastLoop>>
                /\ UNCHANGED notEng
           ELSE IF Stmt.else_body # 0
           THEN /\ exec_call_local_block(e1, cstack, Stmt.else_body)
                /\ UNCHANGED <<prog, par, lastCall, entered, lastLoop>>
                /\ UNCHANGED notEng
           ELSE NextStatement(e1, Top)

(***************************************************************************)
(* for statements: the lambda of compile_for_loop.  Its local variables    *)
(* (count and i, or s, inc and e) are the loop record of the activation;   *)
(* s0, inc0, e0 and n0 keep the values the expressions had, values lists   *)
(* the value of every iteration started, size0 the stack sizes when the    *)
(* statement started, u0 and u1 the unique counter before and after the    *)
(* statement called its expressions.                                       *)
(***************************************************************************)
\* A plausible slip: the loop only ever counts upwards.
Mutant_for_direction(s, e) == "up"

\* if(s <= e) ... else ...
for_direction(s, e) == IF s <= e THEN "up" ELSE "down"

\* A plausible slip: a negative step of a downward loop is not negated.
Mutant_for_step_down(inc) == inc

\* if(inc < 0) inc = -inc
for_step_down(inc) == IF inc < 0 THEN -inc ELSE inc

\* the loop conditions: i < count, s <= e, s >= e
for_continue(l) ==
    IF l.form = "count" THEN l.i < l.count
    ELSE IF l.dir = "up" THEN l.s <= l.e
    ELSE l.s >= l.e

\* the loop increments: ++i, s += inc, s -= inc
for_advance(l) ==
    IF l.form = "count" THEN [l EXCEPT !.i = @ + 1]
    ELSE IF l.dir = "up" THEN [l EXCEPT !.s = @ + l.inc]
    ELSE [l EXCEPT !.s = @ - l.inc]

\* the value pushed for a named loop variable
for_value(l) == IF l.form = "count" THEN ToDouble(l.i) ELSE l.s

\* the start of the for statement: the expressions are called, in the
\* order start, step, end: [ok, unique, loop]
for_start(stmt, s, unique, size0) ==
    LET a == Eval(stmt.start, s, unique)
        b == IF stmt.form = "full" THEN Eval(stmt.step, s, a.unique)
             ELSE [ok |-> TRUE, v |-> ToDouble(1), unique |-> a.unique]
        c == IF stmt.form = "count" THEN [ok |-> TRUE, v |-> 0, unique |-> b.unique]
             ELSE Eval(stmt.end, s, b.unique)
        dir == for_direction(a.v, c.v)
    IN  [ok     |-> a.ok /\ b.ok /\ c.ok,
         unique |-> c.unique,
         loop   |-> [active |-> TRUE, form |-> stmt.form, named |-> stmt.named,
                     block |-> stmt.block,
                     count |-> IF stmt.form = "count" THEN ToInt(a.v) ELSE 0,
                     i |-> 0,
                     s |-> a.v,
                     inc |-> IF stmt.form = "full" /\ dir = "down"
                             THEN for_step_down(b.v) ELSE b.v,
                     e |-> c.v,
                     dir |-> IF stmt.form = "count" THEN "up" ELSE dir,
                     n0 |-> a.v, s0 |-> a.v, inc0 |-> b.v, e0 |-> c.v,
                     values |-> <<>>, size0 |-> size0,
                     u0 |-> unique, u1 |-> c.unique]]

LoopSeen(op, l, size) ==
    [op |-> op, form |-> l.form, named |-> l.named, dir |-> l.dir, count |-> l.count,
     n0 |-> l.n0, s0 |-> l.s0, inc0 |-> l.inc0, e0 |-> l.e0,
     values |-> l.values, size0 |-> l.size0, u0 |-> l.u0, u1 |-> l.u1, size |-> size]

\* the statement of compile_for_loop starts
Exec_for ==
    /\ Running("for")
    /\ LET r == for_start(Stmt, eng.m_stack, eng.m_next_unique_num,
                          EngineStack_get_stack_size(eng.m_stack))
       IN  IF r.ok
           THEN /\ eng' = [eng EXCEPT !.m_next_unique_num = r.unique]
                /\ cstack' = SetTopOf(cstack, [Top EXCEPT !.loop = r.loop])
                /\ lastLoop' = LoopSeen("start", r.loop,
                                        EngineStack_get_stack_size(eng.m_stack))
                /\ UNCHANGED <<prog, par, status, lastCall, entered, lastCheck>>
                /\ UNCHANGED notEng
           ELSE Halt("AssertFailed")

\* one iteration starts: the loop variable is pushed and the body block
\* is called
Exec_for_iteration ==
    /\ Executing
    /\ Top.loop.active
    /\ for_continue(Top.loop)
    /\ IF Len(Top.loop.values) >= MaxIter THEN Halt("cut")
       ELSE LET l  == [Top.loop EXCEPT !.values = Append(@, for_value(Top.loop))]
                e1 == IF l.named
                      THEN [eng EXCEPT !.m_stack = EngineStack_push(@, for_value(l))]
                      ELSE eng
            IN  /\ exec_call_local_block(e1, SetTopOf(cstack, [Top EXCEPT !.loop = l]),
                                         l.block)
                /\ lastLoop' = LoopSeen("enter", l, EngineStack_get_stack_size(e1.m_stack))
                /\ UNCHANGED <<prog, par, lastCall, entered>>
                /\ UNCHANGED notEng

\* the loop condition fails: the for statement is done
Exec_for_exit ==
    /\ Executing
    /\ Top.loop.active
    /\ ~for_continue(Top.loop)
    /\ lastLoop' = LoopSeen("exit", Top.loop, EngineStack_get_stack_size(eng.m_stack))
    /\ cstack' = SetTopOf(cstack, [Top EXCEPT !.loop = NoLoop, !.pc = @ + 1])
    /\ UNCHANGED <<prog, par, eng, status, lastCall, entered, lastCheck>>
    /\ UNCHANGED notEng

\* exec_call_local_block after the statements: the unwind; back in the
\* caller the if statement is done, or the for statement increments
Exec_block_return ==
    /\ Executing
    /\ Top.kind = "block"
    /\ Top.pc > Len(TopChunk.statements)
    /\ LET unwind == TopChunk.unwind_size
           s1     == EngineStack_pop(eng.m_stack, unwind)
           caller == cstack[Len(cstack) - 1]
       IN  IF EngineStack_pop_ok(eng.m_stack, unwind)
           THEN /\ eng' = [eng EXCEPT !.m_stack = s1]
                /\ IF caller.loop.active
                   THEN /\ cstack' = SetTopOf(Front(cstack),
                                        [caller EXCEPT !.loop = for_advance(@)])
                        /\ lastLoop' = LoopSeen("iterated", caller.loop,
                                                EngineStack_get_stack_size(s1))
                   ELSE /\ cstack' = SetTopOf(Front(cstack),
                                              [caller EXCEPT !.pc = @ + 1])
                        /\ lastLoop' = lastLoop
                /\ UNCHANGED <<prog, par, status, lastCall, entered, lastCheck>>
                /\ UNCHANGED notEng
           ELSE Halt("AssertFailed")

EngNext ==
    \/ Parse_fn_definition
    \/ Parse_fn_definition_end
    \/ Parse_value_definition
    \/ Parse_fn_call
    \/ Parse_argument_value
    \/ Parse_argument_fn
    \/ Parse_anonymous_fn_definition
    \/ Parse_anonymous_fn_end
    \/ Parse_fn_call_end
    \/ Parse_for_statement
    \/ Parse_if_statement
    \/ Parse_local_body_end
    \/ Parse_statement_panic
    \/ Parse_fn_definition_panic
    \/ Parse_anonymous_fn_panic
    \/ Parse_eof
    \/ execute_main
    \/ Exec_start_fn_call
    \/ Exec_push_lambda
    \/ Exec_start_lambda_call
    \/ Exec_push_value
    \/ Exec_push_constant
    \/ Exec_push_copy
    \/ Exec_call_fn
    \/ Exec_call_lambda_fn
    \/ Exec_turtle
    \/ Exec_fn_return
    \/ Exec_if
    \/ Exec_for
    \/ Exec_for_iteration
    \/ Exec_for_exit
    \/ Exec_block_return

SpecEngine == EngInit /\ [][EngNext]_vars

(***************************************************************************)
(* Properties of the executor.                                             *)
(***************************************************************************)
RecursivePrograms == {"recurse", "recurse_arg", "recurse_closures"}

Finished == status \notin {"idle", "parsing", "parsed", "executing"}

\* C1: when a call returns (a direct call of a user or builtin function, or
\* a call through a lambda parameter) both stack sizes of the caller are
\* what they were just before the call's start statement ran; and both
\* stacks are empty when execute_main has returned.
C1_CallRestoresStackSizes ==
    /\ lastCall.op = "return" => lastCall.after = lastCall.before
    /\ status = "done" => EngineStack_get_stack_size(eng.m_stack) = Size(0, 0)

\* a call whose arguments came with captures (an anonymous closure was
\* passed) and with a non-empty caller stack has returned
C1_CallWithCapturesReturned ==
    /\ lastCall.op = "return"
    /\ lastCall.call = "fn"
    /\ lastCall.args.captures > 0
    /\ lastCall.args.locals > 0
    /\ lastCall.before.locals > 0

\* C3: the execution of a program whose call nesting grows without bound
\* ends by raising InfiniteRecursionException, whether the function that
\* calls itself takes arguments or not.
C3_UnboundedRecursionRaises ==
    (prog.id \in RecursivePrograms /\ Finished) => status = "InfiniteRecursion"

\* C4 as stated: entering a statement list throws exactly when the number
\* of slots of the Locals and the Captures stack taken together exceeds the
\* limit.
C4_GuardComparesTotal ==
    lastCheck.op = "check" =>
        (lastCheck.thrown <=>
            lastCheck.size.locals + lastCheck.size.captures > infinite_recursion_limit)

\* C4 amended: entering a statement list throws exactly when the Locals
\* stack alone or the Captures stack alone has reached the limit.
C4_GuardComparesEachStack ==
    lastCheck.op = "check" =>
        (lastCheck.thrown <=>
            \/ lastCheck.size.locals >= infinite_recursion_limit
            \/ lastCheck.size.captures >= infinite_recursion_limit)

\* the guard has thrown for the Captures stack while the Locals stack was
\* below the limit
C4_CapturesAloneThrow ==
    /\ lastCheck.op = "check"
    /\ lastCheck.thrown
    /\ lastCheck.size.captures >= infinite_recursion_limit
    /\ lastCheck.size.locals < infinite_recursion_limit

\* C7: for s..e with whole s and e has run its body |e - s| + 1 times when
\* it is done, for s, s+1, ..., e when s <= e and for s, s-1, ..., e when
\* s > e; the named loop variable had those values in that order (the body
\* of the for_range program hands it to r).
C7_RangeLoopIterations ==
    (lastLoop.op = "exit" /\ lastLoop.form = "range"
        /\ IsWhole(lastLoop.s0) /\ IsWhole(lastLoop.e0)) =>
    LET n == Abs(lastLoop.e0 - lastLoop.s0) \div Unit + 1
    IN  /\ Len(lastLoop.values) = n
        /\ \A k \in 1..n :
              lastLoop.values[k] =
                  IF lastLoop.s0 <= lastLoop.e0
                  THEN lastLoop.s0 + ToDouble(k - 1)
                  ELSE lastLoop.s0 - ToDouble(k - 1)
        /\ prog.id = "for_range" =>
              eng.m_turtle =
                  [k \in 1..n |-> [fn |-> "r", args |-> <<lastLoop.values[k]>>]]

\* for 3..1 is done after the iterations 3, 2, 1
C7_DownwardRangeDone ==
    /\ lastLoop.op = "exit"
    /\ lastLoop.form = "range"
    /\ lastLoop.s0 = ToDouble(3)
    /\ lastLoop.e0 = ToDouble(1)
    /\ lastLoop.values = <<ToDouble(3), ToDouble(2), ToDouble(1)>>

\* C8: for s..step..e calls start, step and end once each (the unique
\* counter advances once for the one unique in the loop of for_nested and
\* the body leaves it alone); the body runs for s, s+step, s+2*step, ...
\* while the value is <= e when s <= e, and for s, s-|step|, s-2*|step|, ...
\* while the value is >= e when s > e.
C8_FullLoopIterations ==
    (lastLoop.op \in {"enter", "iterated", "exit"} /\ lastLoop.form = "full") =>
    LET up == lastLoop.s0 <= lastLoop.e0
        d  == IF up THEN lastLoop.inc0 ELSE -Abs(lastLoop.inc0)
        n  == Len(lastLoop.values)
    IN  /\ \A k \in 1..n :
              /\ lastLoop.values[k] = lastLoop.s0 + (k - 1) * d
              /\ IF up THEN lastLoop.values[k] <= lastLoop.e0
                       ELSE lastLoop.values[k] >= lastLoop.e0
        /\ lastLoop.op = "exit" =>
              IF up THEN lastLoop.s0 + n * d > lastLoop.e0
                    ELSE lastLoop.s0 + n * d < lastLoop.e0
        /\ prog.id = "for_nested" =>
              /\ lastLoop.u1 = lastLoop.u0 + 1
              /\ lastLoop.op = "exit" => eng.m_next_unique_num = lastLoop.u1

\* a downward loop with a negative step is done after several iterations
C8_DownwardNegativeStepDone ==
    /\ lastLoop.op = "exit"
    /\ lastLoop.form = "full"
    /\ lastLoop.s0 > lastLoop.e0
    /\ lastLoop.inc0 < 0
    /\ Len(lastLoop.values) >= 2

\* C9: for N calls N once (in for_count N holds one unique and the body
\* another: the counter advances once for the loop and once per
\* iteration), and has run its body max(n, 0) times when it is done, n
\* being N without its fraction, with the indices 0, 1, ..., n-1.
C9_CountLoopIterations ==
    (lastLoop.op = "exit" /\ lastLoop.form = "count") =>
    LET n == Len(lastLoop.values)
    IN  /\ IF lastLoop.n0 < Unit THEN n = 0
           ELSE n * Unit <= lastLoop.n0 /\ lastLoop.n0 < (n + 1) * Unit
        /\ \A k \in 1..n : lastLoop.values[k] = ToDouble(k - 1)
        /\ prog.id = "for_count" =>
              /\ lastLoop.u1 = lastLoop.u0 + 1
              /\ eng.m_next_unique_num = lastLoop.u1 + n

\* a count with a fraction is done: for 1.5 after one iteration
C9_FractionalCountDone ==
    /\ lastLoop.op = "exit"
    /\ lastLoop.form = "count"
    /\ prog.id = "for_count"
    /\ ~IsWhole(lastLoop.n0)
    /\ Len(lastLoop.values) = 1

\* C10: in a for loop with a named variable every iteration starts with
\* one more Locals slot than the loop statement found, and after each
\* iteration and after the loop both stack sizes are what they were when
\* the loop statement started.
C10_NamedLoopVariableUnwound ==
    (lastLoop.op # "none" /\ lastLoop.named) =>
        /\ lastLoop.op = "enter" =>
              lastLoop.size = Size(lastLoop.size0.locals + 1, lastLoop.size0.captures)
        /\ lastLoop.op \in {"start", "iterated", "exit"} =>
              lastLoop.size = lastLoop.size0

\* the second iteration of the named loop of for_nested, whose body defines
\* a local value and a closure, is over
C10_BodyWithLocalsIterated ==
    /\ lastLoop.op = "iterated"
    /\ lastLoop.named
    /\ prog.id = "for_nested"
    /\ lastLoop.form = "range"
    /\ Len(lastLoop.values) >= 2
    /\ lastLoop.size0.locals > 0

\* the parser and the executor always take their next step; the properties
\* need this for the countdown program only
FairEngine == SpecEngine /\ WF_vars(prog.id = "countdown" /\ EngNext)

\* the invocations of f the countdown program must make: f k, ..., f 0
\* (f's chunk is the first one after those of the builtins and of main)
CountdownCalls ==
    [i \in 1..(ToInt(prog.a) + 1) |->
        [fn   |-> Len(ParseStart.eng.m_chunks),
         args |-> << prog.a - ToDouble(i - 1) >>]]

C19_UnwindSizeIsNetGrowth ==
    [][(At("block_end") /\ Last(par.pending).k \in {"for", "if"}) =>
          LET b      == Last(par.pending)
              exit   == EngineStack_get_frame_size(eng.m_stack)
              after  == EngineStack_get_frame_size(eng'.m_stack)
              unwind == get_chunk(eng', b.chunk).unwind_size
          IN  /\ unwind.locals = exit.locals - b.enter.locals
              /\ unwind.captures = exit.captures - b.enter.captures
              /\ after.locals = exit.locals - unwind.locals
              /\ after.captures = exit.captures - unwind.captures]_vars

\* the parse is over and a local block was closed that had grown by
\* several Locals slots and by Captures slots
C19_GrownBlockClosed ==
    /\ status = "parsed"
    /\ \E i \in 1..Len(eng.m_chunks) :
          /\ eng.m_chunks[i].type = "local_block"
          /\ eng.m_chunks[i].unwind_size.locals >= 2
          /\ eng.m_chunks[i].unwind_size.captures >= 1

\* the definition of fn was closed, and the capture list it had then
IsClosed(fn) == \E i \in 1..Len(par.closed) : par.closed[i].fn = fn

ClosedCaptures(fn) ==
    par.closed[CHOOSE i \in 1..Len(par.closed) : par.closed[i].fn = fn].captures

Captured(captures, name) == \E i \in 1..Len(captures) : captures[i] = name

CaptureSize(p, name) == IF p.names[name].kind = "Value" THEN 1 ELSE 2

\* the slots of the captures before the i-th
RECURSIVE PrecedingSize(_, _, _)
PrecedingSize(p, captures, i) ==
    IF i <= 1 THEN 0
    ELSE PrecedingSize(p, captures, i - 1) + CaptureSize(p, captures[i - 1])

\* the slots a statement pushes
PushedSize(s) ==
    IF s.k = "push_copy" THEN s.size ELSE IF s.k = "push_lambda" THEN 2 ELSE 1

\* no capture list holds a name twice, and add_capture's offset of a captured
\* name is the sum of the sizes of the captures before it
CaptureOffsets ==
    \A fn \in DOMAIN par.names :
        LET c == par.names[fn].captures
        IN  \A i \in 1..Len(c) :
                /\ \A j \in 1..Len(c) : c[i] = c[j] => i = j
                /\ add_capture_offset(par, fn, c[i]) = PrecedingSize(par, c, i)

\* a step only appends to a capture list, and the offset of a name already
\* captured stays what it was
CaptureOffsetsStable ==
    \A fn \in DOMAIN par.names \cap DOMAIN par'.names :
        LET c == par.names[fn].captures
            d == par'.names[fn].captures
        IN  /\ Len(c) <= Len(d)
            /\ SubSeq(d, 1, Len(c)) = c
            /\ \A i \in 1..Len(c) :
                   add_capture_offset(par', fn, c[i]) = add_capture_offset(par, fn, c[i])

\* closing a function that has captures appends to the enclosing chunk one
\* push to Captures for each capture, in the order of the list and of the
\* capture's size: the i-th capture lies PrecedingSize slots into the
\* closure object
ClosureObjectLayout ==
    (At("end") /\ Last(par.pending).k = "def") =>
        LET fn    == Last(par.pending).fn
            c     == par'.names[fn].captures
            encl  == eng'.m_current_chunk
            old   == get_chunk(eng, encl).statements
            new   == get_chunk(eng', encl).statements
            \* the Captures frame of the enclosing function before and after
            before == EngineStack_get_frame_size(pop_call_frame_chunk(eng).m_stack).captures
            grown == EngineStack_get_frame_size(eng'.m_stack).captures - before
        IN  /\ Len(new) = Len(old) + Len(c)
            /\ SubSeq(new, 1, Len(old)) = old
            /\ \A i \in 1..Len(c) :
                   /\ new[Len(old) + i].dest = "Capture"
                   /\ PushedSize(new[Len(old) + i]) = CaptureSize(par', c[i])
            /\ grown = PrecedingSize(par', c, Len(c) + 1)
            /\ c # <<>> =>
                   get_chunk(eng', par'.names[fn].chunk).closure_offset = before

\* what the turtle receives from
\* def o(fn(), p) { q = unique  def h() { z }
\*                  def i() { r p  fn  h  r q  r p  fn  r q }  i }  o zero A:
\* every read through a capture offset finds the captured value
CaptureRun ==
    (prog.id = "capture" /\ status = "done") =>
        eng.m_turtle = << [fn |-> "r", args |-> << prog.a >>],
                          [fn |-> "z", args |-> << >>],
                          [fn |-> "z", args |-> << >>],
                          [fn |-> "r", args |-> << ToDouble(1) >>],
                          [fn |-> "r", args |-> << prog.a >>],
                          [fn |-> "z", args |-> << >>],
                          [fn |-> "r", args |-> << ToDouble(1) >> ] >>

\* C21: add_capture(F, x) appends x to F's capture list only when it is not
\* there yet and returns the sum of the sizes (1 for a value, 2 for a
\* function or a lambda parameter) of the captures before x; the offset of
\* a captured name never changes however many captures are added later, and
\* it is x's position inside the closure object pushed at closure creation.
C21_CaptureOffsetsStable ==
    /\ [](CaptureOffsets /\ CaptureRun)
    /\ [][CaptureOffsetsStable /\ ClosureObjectLayout]_vars

\* the function i of the capture program was closed with four captures, a
\* value first, then a lambda parameter and a function of two slots each,
\* and the second value at offset 5; p and fn were used twice
C21_FourCapturesClosed ==
    /\ prog.id = "capture"
    /\ status = "parsed"
    /\ IsClosed("i")
    /\ ClosedCaptures("i") = << "p", "fn", "h", "q" >>

\* C22 as stated: in a = 5  def outer() { def inner() { r a } inner }  outer
\* the name a is in the capture list of inner and in that of outer, and the
\* turtle receives exactly r(5).
C22_GlobalIsCaptured ==
    (prog.id = "cascade" /\ prog.b = 0) =>
        /\ IsClosed("inner") => Captured(ClosedCaptures("inner"), "a")
        /\ IsClosed("outer") => Captured(ClosedCaptures("outer"), "a")
        /\ status = "done" => eng.m_turtle = << [fn |-> "r", args |-> << prog.a >>] >>

\* C22, amended: a name of the top level is in the Global domain and is
\* never captured: inner and outer close with empty capture lists, no chunk
\* gets a closure offset, the Captures stack stays empty, and inner reads a
\* as the constant 5 (or, for a = unique, from the global frame); the turtle
\* receives exactly one call, r with the value of a.
C22_GlobalReadWithoutCapture ==
    prog.id = "cascade" =>
        /\ \A i \in 1..Len(par.closed) : par.closed[i].captures = <<>>
        /\ \A i \in 1..Len(eng.m_chunks) : eng.m_chunks[i].closure_offset = -1
        /\ eng.m_stack.m_captures.stack = <<>>
        /\ IsClosed("inner") =>
               get_chunk(eng, Len(ParseStart.eng.m_chunks) + 1).statements[2]
                   = IF prog.b = 0
                     THEN [k |-> "push_constant", dest |-> "Local", val |-> prog.a]
                     ELSE [k |-> "push_value", dest |-> "Local",
                           expr |-> compile_access_value("Global", 0)]
        /\ status = "done" =>
               eng.m_turtle = << [fn |-> "r",
                                  args |-> << IF prog.b = 0 THEN prog.a
                                              ELSE ToDouble(1) >>] >>

\* the program with a = 5 has run to its end and the turtle has r(5)
C22_CascadeDone ==
    /\ prog.id = "cascade"
    /\ prog.b = 0
    /\ status = "done"
    /\ IsClosed("inner") /\ IsClosed("outer")
    /\ eng.m_turtle = << [fn |-> "r", args |-> << 5 * Unit >>] >>

\* the chunks whose scope is open: the current one and those below it on
\* the chunk index stack; the others are closed
OpenChunks(e) ==
    { e.m_current_chunk }
        \cup { e.m_chunk_index_stack[i] : i \in 1..Len(e.m_chunk_index_stack) }

ClosedChunks(e) == { c \in 0..(Len(e.m_chunks) - 1) : c \notin OpenChunks(e) }

\* the current chunk is popped by this step
ClosesCurrentChunk ==
    /\ eng.m_current_chunk >= 0
    /\ eng.m_current_chunk \notin OpenChunks(eng')

\* a chunk that is closed before the step is the same after it, and no chunk
\* changes once execution has started
ClosedChunksFrozen ==
    /\ \A c \in ClosedChunks(eng) : get_chunk(eng', c) = get_chunk(eng, c)
    /\ eng'.m_is_executing => eng'.m_chunks = eng.m_chunks

\* C23 as stated: after the pop of the chunk that closes its scope, neither
\* the statements nor the metadata (params_size, closure_offset, unwind
\* size) of a chunk are modified again, during the parse or the execution.
C23_ClosedChunkNeverModified ==
    [][/\ ClosedChunksFrozen
       /\ ClosesCurrentChunk =>
              get_chunk(eng', eng.m_current_chunk)
                  = get_chunk(pop_chunk(eng), eng.m_current_chunk)]_vars

\* C23, amended: after the pop the statements, params_size and unwind size
\* of a chunk are final; the closure_offset of a function that has captures
\* is written once more, by create_closure right after the pop in the same
\* EnterBlockRAII::finish, with the size of the enclosing Captures frame; from
\* then on the chunk is never modified, and no chunk changes once execution
\* has started.
C23_ClosedChunkFrozenAfterClosure ==
    [][/\ ClosedChunksFrozen
       /\ ClosesCurrentChunk =>
              LET popped == get_chunk(pop_chunk(eng), eng.m_current_chunk)
                  closed == get_chunk(eng', eng.m_current_chunk)
              IN  /\ closed = [popped EXCEPT !.closure_offset = closed.closure_offset]
                  /\ closed.closure_offset # popped.closure_offset =>
                         /\ closed.type = "function"
                         /\ popped.closure_offset = -1
                         /\ closed.closure_offset =
                                EngineStack_get_frame_size(
                                    pop_call_frame_chunk(eng).m_stack).captures]_vars

\* a program has run to its end one of whose closed functions got its
\* closure offset after the pop
C23_ClosureOffsetWritten ==
    /\ status = "done"
    /\ \E c \in ClosedChunks(eng) : get_chunk(eng, c).closure_offset >= 0

\* this step is the return of a parse_statement that began in an earlier
\* step: the construct on top of pending is a statement and is closed or
\* given up
StatementReturns ==
    /\ status = "parsing"
    /\ par.pending # <<>>
    /\ Last(par.pending).k \in {"def", "call", "for", "if"}
    /\ Len(par'.pending) = Len(par.pending) - 1

\* this step is a whole parse_statement: a value definition, or a statement
\* that panics before it opens a body
StatementInOneStep == At("let") \/ At("bad") \/ At("def_panic")

\* C24: whenever parse_statement returns, normally or after it caught a
\* panic thrown below an open EnterBlockRAII, the context depth, the height
\* of the function definition stack, the engine's current chunk and the
\* number of compile-time frames are what they were when it was entered.
C24_ParseStatementRestoresScope ==
    [][/\ StatementReturns => ScopeOf(par', eng') = Last(par.pending).at
       /\ StatementInOneStep => ScopeOf(par', eng') = ScopeOf(par, eng)]_vars

\* inside a for body inside a function, the panic in the parameter list of
\* an anonymous function has left through the function's block and the
\* call: the function is declared and has its chunk, and the body's chunk
\* is current again
C24_PanicLeftAnonymousFn ==
    /\ prog.id = "panic"
    /\ prog.b = 1
    /\ status = "parsing"
    /\ par.m_has_error
    /\ "!anonymous" \in DOMAIN par.names
    /\ Last(par.pending).k = "for"
    /\ eng.m_current_chunk = Last(par.pending).chunk
    /\ par.names["!anonymous"].chunk > eng.m_current_chunk

TurtleM(a, b) == [fn |-> "m", args |-> << a, b >>]

\* what lexical scoping gives for
\* g = unique  def ap(fn(x)) { fn 1 }
\* def o(p) { q = unique
\*            def h(n) { if n { for 1 { m p q  h (n - 1) } }  m n g }
\*            ap h  ap { => (x) m x p } }  o A
\* with g = 1 and q = 2: h reads p and q of the activation of o that made its
\* closure, n of its own activation and g of the global frame
ScopeOutput(a) ==
    << TurtleM(a, ToDouble(2)), TurtleM(0, ToDouble(1)),
       TurtleM(ToDouble(1), ToDouble(1)), TurtleM(ToDouble(1), a) >>

\* and for def ap(fn(x), v) { fn v }
\* def outer(n) { ap { => (b) m b n } n
\*                def h(a) { if a { h (a - 1) }  m n a }  h 1  ap h 1 }
\* outer unique
ClosuresOutput ==
    << TurtleM(ToDouble(1), ToDouble(1)),
       TurtleM(ToDouble(1), 0), TurtleM(ToDouble(1), ToDouble(1)),
       TurtleM(ToDouble(1), 0), TurtleM(ToDouble(1), ToDouble(1)) >>

\* the reads compiled in h of the scope program
ScopeReads ==
    LET h == get_chunk(eng, Len(ParseStart.eng.m_chunks) + 2).statements
        body == get_chunk(eng, Len(ParseStart.eng.m_chunks) + 4).statements
    IN  /\ body[2].expr = compile_access_value("Capture", 0)
        /\ body[3].expr = compile_access_value("Capture", 1)
        /\ h[3].expr = compile_access_value("Local", 0)
        /\ h[4].expr = compile_access_value("Global", 0)

\* C27: in a program that parses without error every read of a named value
\* gives the value bound in the lexically enclosing activation: a Local read
\* the slot of the current frame, a Global read the slot of the outermost
\* frame, a Capture read the copy made when the closure was created, also
\* when the function is called through a lambda parameter from another
\* frame, inside an if and a for body, and by self-recursion.
C27_ReadsFollowLexicalScope ==
    /\ prog.id = "scope" =>
           /\ status \in {"parsing", "parsed", "executing", "done"}
           /\ status \in {"parsed", "executing", "done"} => ScopeReads
           /\ status \in {"executing", "done"} =>
                  IsPrefix(eng.m_turtle, ScopeOutput(prog.a))
           /\ status = "done" => eng.m_turtle = ScopeOutput(prog.a)
    /\ prog.id = "closures" =>
           /\ status \in {"parsing", "parsed", "executing", "done"}
           /\ status \in {"executing", "done"} => IsPrefix(eng.m_turtle, ClosuresOutput)
           /\ status = "done" => eng.m_turtle = ClosuresOutput

\* the scope program has run to its end: h was called through the lambda
\* parameter of ap and by itself from the loop in its if body, and the
\* anonymous function after it
C27_ScopeProgramDone ==
    /\ prog.id = "scope"
    /\ status = "done"
    /\ Len(eng.m_turtle) = 4
    /\ \E i \in 1..Len(entered) : entered[i].args = << 0 >>

\* the chunk a lambda call statement is about to enter, as the word on the
\* stack names it
LambdaWord == read(eng.m_stack, Stmt.source, Stmt.offset)

\* C28: while a program that parsed without error is executed, no assertion
\* of FrameStack, EngineStack or the engine fails: the executor never stops
\* on one, every call finds a call-frame chunk whose params_size is at most
\* the size of the arguments pushed, and the word a lambda call reads is a
\* whole number that names such a chunk.
C28_NoAssertionFails ==
    /\ status # "AssertFailed"
    /\ Running("call_fn") =>
           /\ Chunk_is_call_frame(get_chunk(eng, Stmt.fn))
           /\ get_chunk(eng, Stmt.fn).params_size <= Stmt.args.locals
           /\ EngineStack_push_frame_ok(eng.m_stack, Size(Stmt.args.locals, 0),
                                        Size(get_chunk(eng, Stmt.fn).params_size, 0))
    /\ Running("call_lambda_fn") =>
           /\ LambdaWord.ok
           /\ IsWhole(LambdaWord.v)
           /\ ToInt(LambdaWord.v) \in 0..(Len(eng.m_chunks) - 1)
           /\ Chunk_is_call_frame(get_chunk(eng, ToInt(LambdaWord.v)))
           /\ get_chunk(eng, ToInt(LambdaWord.v)).params_size <= Stmt.args.locals

\* a lambda call is about to enter a function that takes fewer slots than
\* were pushed for its arguments
C28_LambdaCallTruncates ==
    /\ Running("call_lambda_fn")
    /\ LambdaWord.ok
    /\ get_chunk(eng, ToInt(LambdaWord.v)).params_size < Stmt.args.locals

\* C30: a for statement whose start, step and end are whole numbers performs
\* finitely many iterations whatever the sign of the step, step 0 and a
\* negative step with start <= end included: as every iteration moves the
\* loop value by at least one towards the end, there are never more than
\* |end - start| + 1 of them.
C30_ForLoopIterationsBounded ==
    (/\ lastLoop.op \in {"enter", "iterated", "exit"}
     /\ IsWhole(lastLoop.s0) /\ IsWhole(lastLoop.inc0) /\ IsWhole(lastLoop.e0)) =>
    Len(lastLoop.values) <= ToInt(Abs(lastLoop.e0 - lastLoop.s0)) + 1

(***************************************************************************)
(* Expressions  (ParserBase.h: the Pratt parser; OpInfo; Tokenizer.cpp:    *)
(* the operator table; Parser.cpp: parse_prefix_expression,                *)
(* parse_postfix_op_expression, ExprDepthRAII; Expression.cpp: the         *)
(* combinators; ASTNode.h).                                                *)
(*                                                                         *)
(* A token is [t |-> "number", v], [t |-> "identifier", n] or [t |-> s]    *)
(* for the operator or punctuation s.  An ASTNode is                       *)
(*   [type |-> "Invalid"], [type |-> "Constant", v |-> value] or           *)
(*   [type |-> "Expression", e |-> tree]                                   *)
(* where the tree records what the Expr closure captured.                  *)
(***************************************************************************)
weakest_precedence == 2147483647

\* Lexer::Lexer: add_operator(token, text, pre, post, left_to_right)
OpTable ==
    [op \in {"**", "*", "/", "+", "-", "!", ">", "<", ">=", "<=", "==", "!=",
             "&&", "||", "?"} |->
        CASE op = "**" -> [pre |-> 0, post |-> 2, left_to_right |-> FALSE]
          [] op \in {"*", "/"} -> [pre |-> 0, post |-> 5, left_to_right |-> TRUE]
          [] op \in {"+", "-"} -> [pre |-> 3, post |-> 6, left_to_right |-> TRUE]
          [] op = "!" -> [pre |-> 3, post |-> 0, left_to_right |-> TRUE]
          [] op \in {">", "<", ">=", "<="} -> [pre |-> 0, post |-> 9, left_to_right |-> TRUE]
          [] op \in {"==", "!="} -> [pre |-> 0, post |-> 10, left_to_right |-> TRUE]
          [] op = "&&" -> [pre |-> 0, post |-> 14, left_to_right |-> TRUE]
          [] op = "||" -> [pre |-> 0, post |-> 15, left_to_right |-> TRUE]
          [] op = "?" -> [pre |-> 0, post |-> 16, left_to_right |-> FALSE]]

BinaryOps == {"**", "*", "/", "+", "-", ">", "<", ">=", "<=", "==", "!=", "&&", "||"}

\* OpInfo{}: op = tk_NONE, precedence = 0
NoOpInfo == [op |-> "NONE", precedence |-> 0, left_to_right |-> FALSE]

\* TokenMap::get_postfix_op_info / get_prefix_op_info
get_postfix_op_info(t) ==
    IF t \in DOMAIN OpTable
    THEN [op |-> t, precedence |-> OpTable[t].post,
          left_to_right |-> OpTable[t].left_to_right]
    ELSE NoOpInfo

get_prefix_op_info(t) ==
    IF t \in DOMAIN OpTable
    THEN [op |-> t, precedence |-> OpTable[t].pre,
          left_to_right |-> OpTable[t].left_to_right]
    ELSE NoOpInfo

\* A plausible slip: operators of equal precedence always group to the right.
Mutant_postfix_binds_more_tightly(info, outer_precedence) ==
    ~(info.precedence = 0 \/ info.precedence > outer_precedence)

\* OpInfo::postfix_binds_more_tightly
OpInfo_postfix_binds_more_tightly(info, outer_precedence) ==
    IF info.precedence = 0 \/ info.precedence > outer_precedence THEN FALSE
    ELSE IF info.precedence = outer_precedence /\ info.left_to_right THEN FALSE
    ELSE TRUE

\* ASTNode(), ASTNode(double), ASTNode(Expr)
Invalid == [type |-> "Invalid"]
Constant(v) == [type |-> "Constant", v |-> v]
Expression(e) == [type |-> "Expression", e |-> e]

\* what a closure captures of an operand: get_constant() or get_expression()
Operand(node) ==
    IF node.type = "Constant" THEN [k |-> "const", v |-> node.v]
    ELSE IF node.type = "Expression" THEN node.e
    ELSE [k |-> "empty"]

\* double to bool, and the doubles 0.0 and 1.0
Truth(v) == v # 0
Bool(b) == IF b THEN ToDouble(1) ELSE 0

\* prefix_op<op>
prefix_op(op, rhs) == IF op = "-" THEN -rhs ELSE Bool(~Truth(rhs))

\* std::pow for the exponents 0, 1 and 2
pow(lhs, rhs) ==
    IF rhs = 0 THEN ToDouble(1)
    ELSE IF rhs = ToDouble(1) THEN lhs
    ELSE (lhs * lhs) \div Unit

\* binary_op<op>; the products and quotients of the model are exact
binary_op(op, lhs, rhs) ==
    CASE op = "+" -> lhs + rhs
      [] op = "-" -> lhs - rhs
      [] op = "*" -> (lhs * rhs) \div Unit
      [] op = "/" -> IF (lhs < 0) = (rhs < 0) THEN (Abs(lhs) * Unit) \div Abs(rhs)
                     ELSE -((Abs(lhs) * Unit) \div Abs(rhs))
      [] op = "**" -> pow(lhs, rhs)
      [] op = "==" -> Bool(lhs = rhs)
      [] op = "!=" -> Bool(lhs # rhs)
      [] op = "<" -> Bool(lhs < rhs)
      [] op = ">" -> Bool(lhs > rhs)
      [] op = "<=" -> Bool(lhs <= rhs)
      [] op = ">=" -> Bool(lhs >= rhs)
      [] op = "||" -> IF Truth(lhs) THEN lhs ELSE IF Truth(rhs) THEN rhs ELSE 0
      [] op = "&&" -> IF Truth(lhs) /\ Truth(rhs) THEN rhs ELSE 0

\* whether binary_op is exact in the model's numbers
Exact(op, lhs, rhs) ==
    CASE op = "*" -> (lhs * rhs) % Unit = 0
      [] op = "/" -> rhs # 0 /\ (Abs(lhs) * Unit) % Abs(rhs) = 0
      [] op = "**" -> rhs \in {0, ToDouble(1), ToDouble(2)} /\ (lhs * lhs) % Unit = 0
      [] OTHER -> TRUE

\* create_prefix_op_expr
Expression_create_prefix_op_expr(op, rhs) ==
    IF rhs.type = "Constant" THEN Constant(prefix_op(op, rhs.v))
    ELSE Expression([k |-> "prefix", op |-> op, rhs |-> Operand(rhs)])

\* create_binary_op_expr: MakeBinaryOp<op>::create for the four cases
Expression_create_binary_op_expr(op, lhs, rhs) ==
    IF lhs.type = "Constant" /\ rhs.type = "Constant"
    THEN Constant(binary_op(op, lhs.v, rhs.v))
    ELSE Expression([k |-> "binary", op |-> op, lhs |-> Operand(lhs), rhs |-> Operand(rhs)])

\* create_conditional_expr: create_conditional returns ASTNode{ lambda } in
\* each of the eight cases
Expression_create_conditional_expr(lhs, rhs, third) ==
    Expression([k |-> "conditional", lhs |-> Operand(lhs), rhs |-> Operand(rhs),
                third |-> Operand(third)])

\* Parser::s_max_expr_depth is 2000; the model scales it down
s_max_expr_depth == 6

\* tokens
Tk(t) == [t |-> t]
TkNum(v) == [t |-> "number", v |-> v]
TkId(n) == [t |-> "identifier", n |-> n]

\* the state of a parser inside an expression: the tokens and the position
\* in them, m_expr_depth, the largest m_expr_depth so far, whether panic()
\* ended the process and whether an error was reported
ExprParser(toks) ==
    [toks |-> toks, pos |-> 1, m_expr_depth |-> 0, deepest |-> 0,
     panic |-> FALSE, error |-> FALSE]

\* ParserBase::token / consume / require; nothing runs after a panic
Token(st) == IF st.pos <= Len(st.toks) THEN st.toks[st.pos] ELSE Tk("EOF")
consume(st) == IF st.panic THEN st ELSE [st EXCEPT !.pos = @ + 1]
require(st, t) ==
    IF st.panic THEN st
    ELSE IF Token(st).t = t THEN consume(st)
    ELSE [st EXCEPT !.error = TRUE]

\* ExprDepthRAII::ExprDepthRAII: ++m_expr_depth == s_max_expr_depth panics
ExprDepthRAII_enter(st) ==
    LET d == st.m_expr_depth + 1
    IN  [st EXCEPT !.m_expr_depth = d,
                   !.deepest = IF d > @ THEN d ELSE @,
                   !.panic = @ \/ d = s_max_expr_depth]

\* ExprDepthRAII::~ExprDepthRAII; panic() exits the process: nothing unwinds
ExprDepthRAII_exit(st) ==
    IF st.panic THEN st ELSE [st EXCEPT !.m_expr_depth = @ - 1]

\* the result of a parse function: the node and the parser after it
Parsed(e, st) == [e |-> e, st |-> st]

RECURSIVE ParserBase_parse_expression(_, _)
RECURSIVE Parser_parse_prefix_expression(_)
RECURSIVE Parser_parse_postfix_op_expression(_, _, _, _)
RECURSIVE PostfixLoop(_, _, _)

\* ParserBase::parse_expression(outer_precedence)
ParserBase_parse_expression(st, outer_precedence) ==
    LET r == Parser_parse_prefix_expression(st)
    IN  IF r.e.type = "Invalid" THEN r
        ELSE PostfixLoop(r.e, r.st, outer_precedence)

\* the loop of parse_expression: while(info = consume_postfix_op(outer))
PostfixLoop(e, st, outer_precedence) ==
    LET info == get_postfix_op_info(Token(st).t)
    IN  IF st.panic
               \/ ~OpInfo_postfix_binds_more_tightly(info, outer_precedence)
        THEN Parsed(e, st)
        ELSE LET r == Parser_parse_postfix_op_expression(consume(st), e, info.op,
                                                         info.precedence)
             IN  PostfixLoop(r.e, r.st, outer_precedence)

\* Parser::parse_prefix_expression
Parser_parse_prefix_expression(st0) ==
    LET st == ExprDepthRAII_enter(st0)
        tok == Token(st)
        r == CASE st.panic -> Parsed(Invalid, st)
               [] tok.t = "(" ->
                    LET a == ParserBase_parse_expression(consume(st), weakest_precedence)
                    IN  Parsed(a.e, require(a.st, ")"))
               [] tok.t = "identifier" ->
                    Parsed(Expression([k |-> "access", n |-> tok.n]), consume(st))
               [] tok.t = "number" -> Parsed(Constant(tok.v), consume(st))
               [] tok.t = "+" ->
                    ParserBase_parse_expression(consume(st), NoOpInfo.precedence)
               [] tok.t \in {"-", "!"} ->
                    LET info == get_prefix_op_info(tok.t)
                        a == ParserBase_parse_expression(consume(st), info.precedence)
                    IN  Parsed(Expression_create_prefix_op_expr(info.op, a.e), a.st)
               [] OTHER -> Parsed(Invalid, [st EXCEPT !.error = TRUE])
    IN  Parsed(r.e, ExprDepthRAII_exit(r.st))

\* Parser::parse_postfix_op_expression
Parser_parse_postfix_op_expression(st0, lhs, op, precedence) ==
    LET st == ExprDepthRAII_enter(st0)
        r == CASE st.panic -> Parsed(Invalid, st)
               [] op \in BinaryOps ->
                    LET b == ParserBase_parse_expression(st, precedence)
                    IN  Parsed(Expression_create_binary_op_expr(op, lhs, b.e), b.st)
               [] op = "?" ->
                    LET b == ParserBase_parse_expression(st, weakest_precedence)
                        c == ParserBase_parse_expression(require(b.st, ":"), precedence)
                    IN  Parsed(Expression_create_conditional_expr(lhs, b.e, c.e), c.st)
               [] OTHER -> Parsed(Invalid, [st EXCEPT !.error = TRUE])
    IN  Parsed(r.e, ExprDepthRAII_exit(r.st))

(***************************************************************************)
(* The expressions handed to the parser.                                   *)
(***************************************************************************)
\* a op1 b op2 c over the names a, b, c
Triple(op1, op2) == << TkId("a"), Tk(op1), TkId("b"), Tk(op2), TkId("c") >>

\* the numbers of the constant expressions: -1, 0, 0.5, 1, 2
Numbers == { -ToDouble(1), 0, 1, ToDouble(1), ToDouble(2) }

\* a literal: the lexer has no negative literals, -1 is the prefix op on 1
Literal(v) == IF v < 0 THEN << Tk("-"), TkNum(-v) >> ELSE << TkNum(v) >>

\* an operand that is not a constant
Operands == { Literal(v) : v \in Numbers } \cup { << TkId("a") >> }

\* ( e )
Paren(e) == << Tk("(") >> \o e \o << Tk(")") >>

RECURSIVE Nest(_)
\* n pairs of parentheses around the number 1
Nest(n) == IF n = 0 THEN << TkNum(ToDouble(1)) >> ELSE Paren(Nest(n - 1))

RECURSIVE PowChain(_)
\* 1 ** 1 ** ... ** 1 with n operators
PowChain(n) ==
    IF n = 0 THEN << TkNum(ToDouble(1)) >>
    ELSE << TkNum(ToDouble(1)), Tk("**") >> \o PowChain(n - 1)

\* the value of a literal operand
LiteralValue(x) == IF Len(x) = 2 THEN -x[2].v ELSE x[1].v

IsLiteral(x) == x[Len(x)].t = "number"

PrefixInputs == { << Tk(op) >> \o x : op \in {"-", "!", "+"}, x \in Operands }

LeftOperands ==
    { << TkNum(v) >> : v \in {0, 1, ToDouble(1), ToDouble(2)} } \cup { << TkId("a") >> }

BinaryInputs ==
    { i[2] \o << Tk(i[1]) >> \o i[3] :
        i \in { j \in BinaryOps \X LeftOperands \X Operands :
                  (IsLiteral(j[2]) /\ IsLiteral(j[3])) =>
                      Exact(j[1], LiteralValue(j[2]), LiteralValue(j[3])) } }

ConditionalInputs ==
    { x \o << Tk("?") >> \o y \o << Tk(":") >> \o z :
        x \in { << TkNum(0) >>, << TkNum(ToDouble(1)) >>, << TkId("a") >> },
        y \in { << TkNum(ToDouble(2)) >>, << TkId("a") >> },
        z \in { << TkNum(1) >>, << TkId("a") >> } }

TripleInputs == { Triple(op1, op2) : op1, op2 \in BinaryOps }

DepthInputs ==
    { Nest(n) : n \in 0..(s_max_expr_depth + 1) }
        \cup { PowChain(n) : n \in 1..(s_max_expr_depth + 1) }

BareInputs ==
    PrefixInputs \cup BinaryInputs \cup ConditionalInputs \cup TripleInputs
        \cup DepthInputs

ExprInputs == BareInputs \cup { Paren(e) : e \in BareInputs \ DepthInputs }

ExprInit ==
    /\ NamesIdle
    /\ RecIdle
    /\ FSIdle
    /\ SigIdle
    /\ ImpIdle
    /\ EngIdle
    /\ tokens \in ExprInputs
    /\ parsedExpr = [op |-> "none"]

\* Parser::parse_value_definition: `name = ` is followed by one prefix
\* expression
Expr_parse_value_definition ==
    /\ parsedExpr.op = "none"
    /\ LET r == Parser_parse_prefix_expression(ExprParser(tokens))
       IN  parsedExpr' = [op |-> "prefix", e |-> r.e, st |-> r.st]
    /\ UNCHANGED << tokens, notExpr >>

\* Parser::parse_if_statement and the other callers of parse_expression()
Expr_parse_expression ==
    /\ parsedExpr.op = "none"
    /\ LET r == ParserBase_parse_expression(ExprParser(tokens), weakest_precedence)
       IN  parsedExpr' = [op |-> "expression", e |-> r.e, st |-> r.st]
    /\ UNCHANGED << tokens, notExpr >>

ExprNext ==
    \/ Expr_parse_value_definition
    \/ Expr_parse_expression

SpecExpr == ExprInit /\ [][ExprNext]_vars

(***************************************************************************)
(* Properties of the expression parser.                                    *)
(***************************************************************************)
\* what the closures of a binary operator and of a name capture
BinaryTree(op, l, r) == [k |-> "binary", op |-> op, lhs |-> l, rhs |-> r]
Access(n) == [k |-> "access", n |-> n]

\* op2 binds more tightly than op1: its precedence number is smaller, or
\* equal with right-to-left associativity
BindsMoreTightly(op2, op1) ==
    \/ OpTable[op2].post < OpTable[op1].post
    \/ OpTable[op2].post = OpTable[op1].post /\ ~OpTable[op2].left_to_right

\* the whole input was parsed without a diagnostic
ParsedAll ==
    /\ ~parsedExpr.st.error
    /\ ~parsedExpr.st.panic
    /\ parsedExpr.st.pos = Len(tokens) + 1

\* C15: for the names a, b, c and binary operators op1, op2 of the operator
\* table, a op1 b op2 c (given to parse_expression, or in parentheses to
\* either entry) is parsed to the end as a op1 (b op2 c) when op2 binds
\* more tightly than op1 and as (a op1 b) op2 c when it does not.
C15_PrecedenceGrouping ==
    \A op1, op2 \in BinaryOps :
        (\/ tokens = Triple(op1, op2) /\ parsedExpr.op = "expression"
         \/ tokens = Paren(Triple(op1, op2)) /\ parsedExpr.op # "none") =>
            /\ ParsedAll
            /\ parsedExpr.e =
                 Expression(
                   IF BindsMoreTightly(op2, op1)
                   THEN BinaryTree(op1, Access("a"),
                                   BinaryTree(op2, Access("b"), Access("c")))
                   ELSE BinaryTree(op2, BinaryTree(op1, Access("a"), Access("b")),
                                   Access("c")))

\* a ** b ** c was parsed as a ** (b ** c): equal precedence, right to left
C15_PowGroupsRight ==
    /\ tokens = Triple("**", "**")
    /\ parsedExpr.op = "expression"
    /\ parsedExpr.e.e.rhs = BinaryTree("**", Access("b"), Access("c"))

\* an input without a name: every operand is a constant
ConstantOnly == \A i \in 1..Len(tokens) : tokens[i].t # "identifier"

\* C16: for one prefix, binary or ternary operator applied to literal
\* operands the parser returns a Constant node holding the value of the
\* operator applied to the operands' values; when an operand is a name it
\* returns a deferred (Expression) node.
C16_ConstantOperandsFold ==
    (parsedExpr.op = "expression"
        /\ tokens \in PrefixInputs \cup BinaryInputs \cup ConditionalInputs) =>
        /\ ParsedAll
        /\ \A op \in {"-", "!"}, v \in Numbers :
              tokens = << Tk(op) >> \o Literal(v) =>
                  parsedExpr.e = Constant(prefix_op(op, v))
        /\ \A op \in BinaryOps, v \in Numbers, w \in Numbers :
              (tokens = Literal(v) \o << Tk(op) >> \o Literal(w) /\ v >= 0) =>
                  parsedExpr.e = Constant(binary_op(op, v, w))
        /\ \A v \in Numbers, w \in Numbers, x \in Numbers :
              tokens = << TkNum(v), Tk("?"), TkNum(w), Tk(":"), TkNum(x) >> =>
                  parsedExpr.e = Constant(IF Truth(v) THEN w ELSE x)
        /\ ~ConstantOnly => parsedExpr.e.type = "Expression"

\* C17: the parser has panicked exactly when more than s_max_expr_depth
\* entries of parse_prefix_expression / parse_postfix_op_expression were
\* active at once; with exactly s_max_expr_depth of them it has not; and
\* without a panic the counter is back at its entry value.
C17_PanicExactlyAboveLimit ==
    parsedExpr.op # "none" =>
        /\ parsedExpr.st.panic <=> parsedExpr.st.deepest > s_max_expr_depth
        /\ parsedExpr.st.deepest = s_max_expr_depth => ~parsedExpr.st.panic
        /\ ~parsedExpr.st.panic => parsedExpr.st.m_expr_depth = 0

(***************************************************************************)
(* Names  (LexicalContext.h: LexicalContextStack; ParserBase.h: initialize *)
(* and the context wrappers; Parser.h: declare_name; Parser.cpp:           *)
(* push_context, pop_context, lookup_name, lookup_global_name, parse).     *)
(* m_stack is a list of contexts with the innermost in front; a context    *)
(* maps a name to its definition.                                          *)
(***************************************************************************)
MaxContexts == 2      \* deepest context depth explored by SpecNames
MaxDefs == 3          \* most definitions held by the contexts together

NameIds == {"f", "r"}
\* error_name(loc): the name declare_name defines in place of a duplicate
ErrorName == "!error"
\* m_builtins after define_builtin_names
m_builtins == {"r"}

EmptyContext == [n \in {} |-> 0]
\* the NamedefType a context creates, before setup_decl
EmptyDef == [decl |-> FALSE, depth |-> -1]
\* nullptr
NoDef == [found |-> FALSE]
\* a pointer to the definition of a name in the context at index level of
\* m_stack (0: m_builtins)
DefAt(level, def) == [found |-> TRUE, level |-> level, def |-> def]

NewNames == [m_stack |-> <<>>, m_context_depth |-> 0, m_has_error |-> FALSE]

NumDefs(s) ==
    Cardinality({ c \in (1..Len(s)) \X (NameIds \cup {ErrorName}) :
                    c[2] \in DOMAIN s[c[1]] })

LexicalContextStack_push_context(s) == << EmptyContext >> \o s

LexicalContextStack_pop_context(s) == Tail(s)

\* define_name: [stack, result]; try_emplace inserts only an absent name,
\* and accept_dup is not read
LexicalContextStack_define_name(s, name, accept_dup) ==
    IF name \in DOMAIN s[1]
    THEN [stack |-> s, result |-> NoDef]
    ELSE [stack  |-> [s EXCEPT ![1] = (name :> EmptyDef) @@ @],
          result |-> DefAt(1, EmptyDef)]

RECURSIVE LexicalContextStack_lookup_from(_, _, _)
LexicalContextStack_lookup_from(s, name, i) ==
    IF i > Len(s) THEN NoDef
    ELSE IF name \in DOMAIN s[i] THEN DefAt(i, s[i][name])
    ELSE LexicalContextStack_lookup_from(s, name, i + 1)

LexicalContextStack_lookup_name(s, name) == LexicalContextStack_lookup_from(s, name, 1)

\* lookup_global_name: m_stack.back()
LexicalContextStack_lookup_global_name(s, name) ==
    IF s # <<>> /\ name \in DOMAIN s[Len(s)]
    THEN DefAt(Len(s), s[Len(s)][name])
    ELSE NoDef

lookup_builtin(name) ==
    IF name \in m_builtins THEN DefAt(0, [decl |-> TRUE, depth |-> 0]) ELSE NoDef

Parser_lookup_name(lx, name) ==
    LET def == LexicalContextStack_lookup_name(lx.m_stack, name)
    IN  IF def.found THEN def ELSE lookup_builtin(name)

Parser_lookup_global_name(lx, name) ==
    LET def == LexicalContextStack_lookup_global_name(lx.m_stack, name)
    IN  IF def.found THEN def ELSE lookup_builtin(name)

\* Parser::push_context / pop_context
Names_push_context(lx) ==
    [lx EXCEPT !.m_stack = LexicalContextStack_push_context(@),
               !.m_context_depth = @ + 1]

Names_pop_context(lx) ==
    [lx EXCEPT !.m_context_depth = @ - 1,
               !.m_stack = LexicalContextStack_pop_context(@)]

\* def->setup_decl(name, loc, get_context_depth())
setup_decl(lx, name) ==
    [lx EXCEPT !.m_stack[1][name] = [decl |-> TRUE, depth |-> lx.m_context_depth]]

\* declare_name: [names, died]; a duplicate is reported and the definition
\* goes under the error name
Names_declare_name(lx, name) ==
    LET r == LexicalContextStack_define_name(lx.m_stack, name, FALSE)
        q == LexicalContextStack_define_name(lx.m_stack, ErrorName, FALSE)
    IN  IF r.result.found
        THEN [names |-> setup_decl([lx EXCEPT !.m_stack = r.stack], name),
              died  |-> FALSE]
        ELSE IF q.result.found
        THEN [names |-> setup_decl([lx EXCEPT !.m_stack = q.stack,
                                              !.m_has_error = TRUE], ErrorName),
              died  |-> FALSE]
        ELSE [names |-> [lx EXCEPT !.m_has_error = TRUE], died |-> TRUE]

LexInit ==
    /\ lexical = NewNames
    /\ lexLast = [op |-> "none"]
    /\ RecIdle
    /\ ExprIdle
    /\ FSIdle
    /\ SigIdle
    /\ ImpIdle
    /\ EngIdle

\* Parser::parse up to parse_statement_list: Base::initialize pushes a
\* context, then EnterBlockRAII for the global function pushes the context
\* of the top level
Lex_parse ==
    /\ lexical.m_stack = <<>>
    /\ lexical' = Names_push_context(
                      [lexical EXCEPT !.m_stack = LexicalContextStack_push_context(@)])
    /\ lexLast' = [op |-> "parse", pre |-> lexical]
    /\ UNCHANGED notLex

Lex_push_context ==
    /\ lexical.m_stack # <<>>
    /\ lexical.m_context_depth < MaxContexts
    /\ lexical' = Names_push_context(lexical)
    /\ lexLast' = [op |-> "push_context", pre |-> lexical]
    /\ UNCHANGED notLex

Lex_pop_context ==
    /\ lexical.m_context_depth > 1
    /\ lexical' = Names_pop_context(lexical)
    /\ lexLast' = [op |-> "pop_context", pre |-> lexical]
    /\ UNCHANGED notLex

Lex_define_name ==
    \E name \in NameIds, accept_dup \in BOOLEAN :
        /\ lexical.m_stack # <<>>
        /\ NumDefs(lexical.m_stack) < MaxDefs
        /\ LET r == LexicalContextStack_define_name(lexical.m_stack, name, accept_dup)
           IN  /\ lexical' = [lexical EXCEPT !.m_stack = r.stack]
               /\ lexLast' = [op |-> "define_name", name |-> name,
                              accept_dup |-> accept_dup, pre |-> lexical,
                              result |-> r.result]
        /\ UNCHANGED notLex

Lex_declare_name ==
    \E name \in NameIds :
        /\ lexical.m_stack # <<>>
        /\ NumDefs(lexical.m_stack) < MaxDefs
        /\ LET r == Names_declare_name(lexical, name)
           IN  /\ lexical' = r.names
               /\ lexLast' = [op |-> "declare_name", name |-> name, pre |-> lexical,
                              died |-> r.died]
        /\ UNCHANGED notLex

Lex_lookup_name ==
    \E name \in NameIds :
        /\ lexical.m_stack # <<>>
        /\ lexLast' = [op |-> "lookup_name", name |-> name, pre |-> lexical,
                       result |-> Parser_lookup_name(lexical, name)]
        /\ UNCHANGED lexical
        /\ UNCHANGED notLex

Lex_lookup_global_name ==
    \E name \in NameIds :
        /\ lexical.m_stack # <<>>
        /\ lexLast' = [op |-> "lookup_global_name", name |-> name, pre |-> lexical,
                       result |-> Parser_lookup_global_name(lexical, name)]
        /\ UNCHANGED lexical
        /\ UNCHANGED notLex

LexNext ==
    \/ Lex_parse
    \/ Lex_push_context
    \/ Lex_pop_context
    \/ Lex_define_name
    \/ Lex_declare_name
    \/ Lex_lookup_name
    \/ Lex_lookup_global_name

SpecNames == LexInit /\ [][LexNext]_vars

(***************************************************************************)
(* Properties of the names.                                                *)
(***************************************************************************)
\* C25: define(name, allow_redefine) adds an empty definition to the
\* innermost context and returns it when the name is not there (whatever
\* the outer contexts hold); when the innermost context has the name it
\* returns none if allow_redefine is false and the existing definition if
\* allow_redefine is true.
C25_DefineReturnsExistingOnRedefine ==
    lexLast.op = "define_name" =>
        LET pre == lexLast.pre.m_stack
            had == lexLast.name \in DOMAIN pre[1]
        IN  /\ ~had =>
                   /\ lexLast.result = DefAt(1, EmptyDef)
                   /\ lexLast.name \in DOMAIN lexical.m_stack[1]
                   /\ lexical.m_stack[1][lexLast.name] = EmptyDef
            /\ (had /\ ~lexLast.accept_dup) => lexLast.result = NoDef
            /\ (had /\ lexLast.accept_dup) =>
                   lexLast.result = DefAt(1, pre[1][lexLast.name])

\* C26: lookup_global(name) finds exactly the names defined at the top level
\* of the file (the context of depth 1), never one of a nested context, and
\* falls back to the builtins only when the top level has no such name.
C26_LookupGlobalFindsTopLevel ==
    lexLast.op = "lookup_global_name" =>
        LET s   == lexLast.pre.m_stack
            \* the context of depth 1 lies above the one of initialize
            top == Len(s) - 1
        IN  IF lexLast.name \in DOMAIN s[top]
            THEN lexLast.result = DefAt(top, s[top][lexLast.name])
            ELSE lexLast.result = lookup_builtin(lexLast.name)

(***************************************************************************)
(* Error recovery  (Parser.cpp: parse_statement_list, parse_statement,     *)
(* parse_definition, parse_fn_definition, parse_fn_params, parse_param_def,*)
(* parse_lambda_param_signature, synchronize_after_panic,                  *)
(* synchronize_for_fn_params; ParserBase.h: consume, require).             *)
(* The parser runs over a token sequence in which every identifier is a    *)
(* name of its own, so that a statement starting with an identifier names  *)
(* an undefined command.  rp.stack holds the parse functions that are      *)
(* active, the innermost last; one step is one iteration of the innermost  *)
(* loop, or one call or return.  A loop's frame keeps in last the position *)
(* at which its previous iteration began.                                  *)
(***************************************************************************)
MaxTail == 3          \* tokens that follow the opening of the input

TokenKinds == {"def", "id", "(", ")", "{", "}"}

Tails == UNION { [1..n -> TokenKinds] : n \in 0..MaxTail }

\* nothing, `def f (` and `def f ( g (`
Openings == { <<>>, <<"def", "id", "(">>, <<"def", "id", "(", "id", "(">> }

RecInputs == { o \o t : o \in Openings, t \in Tails }

\* lexer.next_token() keeps returning tk_EOF at the end
TokenAt(toks, pos) == IF pos > Len(toks) THEN "EOF" ELSE toks[pos]

\* ParserBase::consume()
Consumed(toks, pos) == IF pos > Len(toks) THEN pos ELSE pos + 1

\* consume(token)
ConsumedIf(toks, pos, kind) ==
    IF TokenAt(toks, pos) = kind THEN Consumed(toks, pos) ELSE pos

Frame(f) == [f |-> f, phase |-> "enter", depth |-> 0, last |-> -1]

\* the statement keywords and '}' at which the synchronize functions stop
\* (of tk_import, tk_def, tk_if, tk_for, tk_breakpoint the inputs hold tk_def)
IsSyncPoint(kind) == kind \in {"def", "}"}

\* a PanicException leaves the functions above the nearest parse_statement;
\* ~EnterBlockRAII of a function definition pops its context
RECURSIVE Unwind(_, _)
Unwind(stack, depth) ==
    IF stack[Len(stack)].f = "statement"
    THEN [stack |-> [stack EXCEPT ![Len(stack)].phase = "caught"], depth |-> depth]
    ELSE Unwind(Front(stack),
                IF stack[Len(stack)].f = "fn_definition" THEN depth - 1 ELSE depth)

\* the catch of parse_statement: error(err.what()), synchronize_after_panic()
Caught(r, u) ==
    [r EXCEPT !.stack = Append(u.stack, Frame("sync_panic")),
              !.m_context_depth = u.depth,
              !.m_has_error = TRUE]

NewRecovering ==
    [pos |-> 1, stack |-> << Frame("list") >>, m_context_depth |-> 1,
     m_has_error |-> FALSE, status |-> "parsing"]

RecInit ==
    /\ input \in RecInputs
    /\ rp = NewRecovering
    /\ NamesIdle
    /\ ExprIdle
    /\ FSIdle
    /\ SigIdle
    /\ ImpIdle
    /\ EngIdle

RecTop == rp.stack[Len(rp.stack)]
RecToken == TokenAt(input, rp.pos)
RecAt(f) == rp.status = "parsing" /\ rp.stack # <<>> /\ RecTop.f = f

\* the frames below the innermost, and the innermost with its iteration noted
Below == Front(rp.stack)
Iterating == [RecTop EXCEPT !.last = rp.pos]

RecStep(r) ==
    /\ rp' = IF r.stack = <<>> THEN [r EXCEPT !.status = "returned"] ELSE r
    /\ UNCHANGED input
    /\ UNCHANGED notRec

\* parse_statement_list: one pass of its loop up to the call of
\* parse_statement
Rec_parse_statement_list ==
    /\ RecAt("list")
    /\ IF RecToken = "EOF" \/ (RecToken = "}" /\ rp.m_context_depth # 1)
       THEN RecStep([rp EXCEPT !.stack = Below])
       ELSE RecStep([rp EXCEPT
                !.pos = ConsumedIf(input, rp.pos, "}"),
                !.m_has_error = @ \/ RecToken = "}",
                !.stack = Below \o << Iterating, Frame("statement") >>])

\* parse_statement: tk_def is followed by parse_definition and
\* parse_fn_definition up to the parameter loop; an identifier is an
\* undefined command and any other token no statement: PanicException
Rec_parse_statement ==
    /\ RecAt("statement")
    /\ RecTop.phase = "enter"
    /\ IF RecToken = "def"
       THEN LET p1 == Consumed(input, rp.pos)
                p2 == Consumed(input, p1)
                p3 == Consumed(input, p2)
            IN  RecStep([rp EXCEPT
                    !.pos = p3,
                    !.m_has_error = @ \/ TokenAt(input, p1) # "id"
                                      \/ TokenAt(input, p2) # "(",
                    !.m_context_depth = @ + 1,
                    !.stack = Below \o << [RecTop EXCEPT !.phase = "body"],
                                          Frame("fn_definition"),
                                          Frame("fn_params") >>])
       ELSE RecStep(Caught(rp, Unwind(rp.stack, rp.m_context_depth)))

\* parse_statement returns
Rec_parse_statement_return ==
    /\ RecAt("statement")
    /\ RecTop.phase # "enter"
    /\ RecStep([rp EXCEPT !.stack = Below])

\* parse_fn_params: one pass of its loop; parse_param_def for an identifier
Rec_parse_fn_params ==
    /\ RecAt("fn_params")
    /\ IF RecToken = ")"
       THEN RecStep([rp EXCEPT !.pos = Consumed(input, rp.pos), !.stack = Below])
       ELSE IF RecToken = "id"
       THEN LET p1 == Consumed(input, rp.pos)
            IN  IF TokenAt(input, p1) = "("
                THEN RecStep([rp EXCEPT
                         !.pos = Consumed(input, p1),
                         !.stack = Below \o << Iterating, Frame("param_def"),
                                               [Frame("lambda_sig") EXCEPT !.depth = 1] >>])
                ELSE RecStep([rp EXCEPT !.pos = p1,
                                        !.stack = Below \o << Iterating >>])
       ELSE \* error, synchronize_for_fn_params(), return
            RecStep([rp EXCEPT !.m_has_error = TRUE,
                               !.stack = Below \o << Frame("sync_params") >>])

\* parse_param_def after parse_lambda_param_signature: require(')')
Rec_parse_param_def ==
    /\ RecAt("param_def")
    /\ RecStep([rp EXCEPT !.pos = Consumed(input, rp.pos),
                          !.m_has_error = @ \/ RecToken # ")",
                          !.stack = Below])

\* parse_lambda_param_signature: one pass of while(depth > 0)
Rec_parse_lambda_param_signature ==
    /\ RecAt("lambda_sig")
    /\ IF RecToken = "id"
       THEN LET p1 == Consumed(input, rp.pos)
            IN  RecStep([rp EXCEPT
                    !.pos = ConsumedIf(input, p1, "("),
                    !.stack = Below \o
                        << [Iterating EXCEPT
                              !.depth = IF TokenAt(input, p1) = "(" THEN @ + 1 ELSE @] >>])
       ELSE IF RecToken = ")"
       THEN RecStep([rp EXCEPT
                !.pos = IF RecTop.depth > 1 THEN Consumed(input, rp.pos) ELSE rp.pos,
                !.stack = IF RecTop.depth > 1
                          THEN Below \o << [Iterating EXCEPT !.depth = @ - 1] >>
                          ELSE Below])
       ELSE \* error, synchronize_for_fn_params()
            RecStep([rp EXCEPT !.m_has_error = TRUE,
                               !.stack = Below \o << Iterating, Frame("sync_params") >>])

\* synchronize_for_fn_params: one pass of its loop, or consume(')') after it
Rec_synchronize_for_fn_params ==
    /\ RecAt("sync_params")
    /\ IF RecToken \in {"EOF", ")"}
       THEN RecStep([rp EXCEPT !.pos = ConsumedIf(input, rp.pos, ")"), !.stack = Below])
       ELSE IF IsSyncPoint(RecToken)
       THEN RecStep(Caught(rp, Unwind(rp.stack, rp.m_context_depth)))
       ELSE IF RecToken = "{"
       THEN RecStep([rp EXCEPT !.stack = Below])
       ELSE RecStep([rp EXCEPT !.pos = Consumed(input, rp.pos),
                               !.stack = Below \o << Iterating >>])

\* synchronize_after_panic: one pass of its loop
Rec_synchronize_after_panic ==
    /\ RecAt("sync_panic")
    /\ IF RecToken = "EOF" \/ IsSyncPoint(RecToken)
       THEN RecStep([rp EXCEPT !.stack = Below])
       ELSE RecStep([rp EXCEPT !.pos = Consumed(input, rp.pos),
                               !.stack = Below \o << Iterating >>])

\* parse_fn_definition after parse_fn_params: require('{') and the body;
\* after the body: block.finish(), require('}')
Rec_parse_fn_definition ==
    /\ RecAt("fn_definition")
    /\ IF RecTop.phase = "enter"
       THEN RecStep([rp EXCEPT
                !.pos = Consumed(input, rp.pos),
                !.m_has_error = @ \/ RecToken # "{",
                !.stack = Below \o << [RecTop EXCEPT !.phase = "body"], Frame("list") >>])
       ELSE RecStep([rp EXCEPT
                !.pos = Consumed(input, rp.pos),
                !.m_has_error = @ \/ RecToken # "}",
                !.m_context_depth = @ - 1,
                !.stack = Below])

RecNext ==
    \/ Rec_parse_statement_list
    \/ Rec_parse_statement
    \/ Rec_parse_statement_return
    \/ Rec_parse_fn_params
    \/ Rec_parse_param_def
    \/ Rec_parse_lambda_param_signature
    \/ Rec_synchronize_for_fn_params
    \/ Rec_synchronize_after_panic
    \/ Rec_parse_fn_definition

SpecRecover == RecInit /\ [][RecNext]_vars

(***************************************************************************)
(* Properties of the error recovery.                                       *)
(***************************************************************************)
\* the innermost function is a recovery loop about to begin a pass
RecoveryLoopBegins ==
    \/ RecAt("sync_panic") /\ RecToken # "EOF" /\ ~IsSyncPoint(RecToken)
    \/ RecAt("sync_params") /\ RecToken \notin {"EOF", ")", "{"}
                            /\ ~IsSyncPoint(RecToken)
    \/ RecAt("fn_params") /\ RecToken = "id"
    \/ RecAt("lambda_sig")

\* C29: the parser terminates on every finite token sequence: every pass of
\* an error-recovery loop (after a panic, in a function parameter list, in
\* a lambda parameter signature, also at the end of input and at '{')
\* consumes a token or leaves the loop, so a loop never begins a pass at
\* the position at which its previous pass began.
C29_RecoveryLoopsProgress ==
    RecoveryLoopBegins => RecTop.last < rp.pos

====
